---- MODULE Spec2Model ----
(***************************************************************************)
(* The tea graph store over sqlite (tea/sqlite/mod.rs): the two tables,    *)
(* the entity operations, the assoc mutations and the assoc queries of     *)
(* TeaSqliteConnection, and the two page size config variables.            *)
(* A table is a set of rows; every statement is modelled by the rows it    *)
(* matches, the rows it leaves behind and the rows it returns.             *)
(***************************************************************************)
EXTENDS Integers, Sequences, FiniteSets, TLC

\* ------------------------------------------------------------------ bounds
\* Largest entity id handled: ids passed by callers and rowids assigned.
MaxId == 3
\* Largest number of rows of the assocs table.
MaxAssocs == 2
\* Last second of the clock.
MaxTime == 1
\* Largest raw 64-bit value given to a constructor of the id and type tags.
MaxRaw == 40

\* ----------------------------------------------------------------- domains
\* Byte strings given as data: the empty one, and ones with a zero byte.
Data == {<<>>, <<104, 0>>}
\* The threads that call the store.
Workers == {1, 2}
NoWorker == 0
\* A worker that is in no call.
Idle == [pc |-> "idle"]

\* EntityId, EntityType and AssocType wrap a NonZeroU64 (types.rs).
EntityId == 1..MaxId
EntityType == {1, 2}
AssocType == {1, 2}
Time == 0..MaxTime

VARIABLES
    ents,     \* table ents: rows [id, type, data]
    assocs,   \* table assocs: rows [id1, id2, type, last_change_unixtime, data]
    now,      \* Utc::now().timestamp()
    last,     \* the last call: [op, args, res]
    issued,   \* every id an ent_add has returned so far
    written,  \* per id: what the caller gave to ent_add / ent_update, or NoEnt
    MAX_ASSOCS_PER_PAGE,      \* the value held by the config variable
    DEFAULT_ASSOCS_PER_PAGE,  \* the value held by the config variable
    REGISTRY, \* ConfigRegistry::configs: the head of the list of configs
    statics,  \* per config: its Once (__init) and its link (__next)
    mutex,    \* the Mutex of a SharedTeaConnection: the worker holding it, or 0
    workers   \* per worker: where it is in the call it is making

tunables == <<MAX_ASSOCS_PER_PAGE, DEFAULT_ASSOCS_PER_PAGE, REGISTRY, statics>>
shared == <<mutex, workers>>
vars == <<ents, assocs, now, last, issued, written, tunables, shared>>

\* --------------------------------------------------------------- results
Ok(v) == [kind |-> "Ok", val |-> v]
EntNotFound(id) == [kind |-> "EntNotFound", id |-> id]
EntUpdateModifiedTooManyRows(id, n) ==
    [kind |-> "EntUpdateModifiedTooManyRows", id |-> id, modified |-> n, expected |-> 1]
AssocNotFound(ty, id1, id2) == [kind |-> "AssocNotFound", ty |-> ty, id1 |-> id1, id2 |-> id2]
AssocAlreadyExists(ty, id1, id2) ==
    [kind |-> "AssocAlreadyExists", ty |-> ty, id1 |-> id1, id2 |-> id2]
AssocUpdateModifiedTooManyRows(ty, id1, id2, n) ==
    [kind |-> "AssocUpdateModifiedTooManyRows", ty |-> ty, id1 |-> id1, id2 |-> id2,
     modified |-> n, expected |-> 1]
StorageError == [kind |-> "StorageError"]
ZeroIsNotAValidID == [kind |-> "ZeroIsNotAValidID"]
ZeroIsNotAValidType == [kind |-> "ZeroIsNotAValidType"]

\* EntityId::from_u64 / EntityType::from_u64: zero is rejected.
EntityId_from_u64(v) == IF v = 0 THEN ZeroIsNotAValidID ELSE Ok(v)
EntityType_from_u64(v) == IF v = 0 THEN ZeroIsNotAValidType ELSE Ok(v)

\* ---------------------------------------------------------------- tables
MaxOf(S) == CHOOSE m \in S : \A x \in S : x <= m

\* Variant of the rowid: the largest rowid of the table again.
NextRowid_Again(rows) == IF rows = {} THEN 1 ELSE MaxOf({r.id : r \in rows})

\* Variant of the rowid: counted from 0 in an empty table.
NextRowid_FromZero(rows) == IF rows = {} THEN 0 ELSE MaxOf({r.id : r \in rows}) + 1

\* The rowid sqlite gives a row inserted into ents without an id: the column
\* is INTEGER PRIMARY KEY without AUTOINCREMENT, so it is one more than the
\* largest rowid now in the table, and 1 in an empty table.
NextRowid(rows) == IF rows = {} THEN 1 ELSE MaxOf({r.id : r \in rows}) + 1

EntRow(id, ty, data) == [id |-> id, type |-> ty, data |-> data]
AssocRow(id1, id2, ty, ts, data) ==
    [id1 |-> id1, id2 |-> id2, type |-> ty, last_change_unixtime |-> ts, data |-> data]

\* SELECT ... FROM ents WHERE id = ?1
EntsWithId(rows, id) == {r \in rows : r.id = id}
\* WHERE type = ? AND id1 = ? AND id2 = ?
AssocsWithKey(rows, ty, id1, id2) ==
    {a \in rows : a.type = ty /\ a.id1 = id1 /\ a.id2 = id2}

TheRow(S) == CHOOSE r \in S : TRUE

NoArgs == [none |-> TRUE]

\* What the caller has written to an id: the type given to ent_add, the data
\* given last, and whether an ent_update gave it.
NoEnt == [live |-> FALSE, ty |-> 0, data |-> <<>>, updated |-> FALSE]
Written(ty, data, updated) == [live |-> TRUE, ty |-> ty, data |-> data, updated |-> updated]

\* ---------------------------------------------------------------- config
\* config! { MAX_ASSOCS_PER_PAGE: usize = 500; DEFAULT_ASSOCS_PER_PAGE: usize
\* = 100; }: the premain registrar runs init, which stores the default.
MAX_ASSOCS_PER_PAGE_default == 500
DEFAULT_ASSOCS_PER_PAGE_default == 100

\* The configs of the program, by name, and the end of the registry's list.
Configs == {"MAX_ASSOCS_PER_PAGE", "DEFAULT_ASSOCS_PER_PAGE"}
NoConfig == "None"
\* A config as the config! macro declares it: Once::new(), a null __value and
\* Cell::new(None).
Declared == [init |-> "new", next |-> NoConfig]
\* The null pointer in __value, before init has stored an RwLock there.
Null == 0 - 1

\* ------------------------------------------------------------------ init
\* new_in_memory: an empty database on which initialize has run. The premain
\* registrars have run init on the two configs, here in the order of their
\* declaration; no operation of the store reads the order of the list.
Init ==
    /\ ents = {}
    /\ assocs = {}
    /\ now = 0
    /\ last = [op |-> "initialize", args |-> NoArgs, res |-> Ok(NoArgs)]
    /\ issued = {}
    /\ written = [id \in EntityId |-> NoEnt]
    /\ MAX_ASSOCS_PER_PAGE = MAX_ASSOCS_PER_PAGE_default
    /\ DEFAULT_ASSOCS_PER_PAGE = DEFAULT_ASSOCS_PER_PAGE_default
    /\ REGISTRY = "DEFAULT_ASSOCS_PER_PAGE"
    /\ statics = [c \in Configs |->
                     [init |-> "done",
                      next |-> IF c = "DEFAULT_ASSOCS_PER_PAGE"
                               THEN "MAX_ASSOCS_PER_PAGE" ELSE NoConfig]]
    /\ mutex = NoWorker
    /\ workers = [w \in Workers |-> Idle]

\* Variant of the batch: the table is created anew.
initialize_rows_Recreated(rows) == {}

\* CREATE TABLE IF NOT EXISTS leaves the rows of an existing table alone.
initialize_rows(rows) == rows

initialize ==
    /\ ents' = initialize_rows(ents)
    /\ assocs' = initialize_rows(assocs)
    /\ last' = [op |-> "initialize", args |-> NoArgs, res |-> Ok(NoArgs)]
    /\ UNCHANGED <<tunables, now, issued, written>>

\* --------------------------------------------------------------- ent_add
ent_add(ty, data) ==
    LET id == NextRowid(ents)
        res == EntityId_from_u64(id)
    IN  /\ id <= MaxId
        /\ ents' = ents \cup {EntRow(id, ty, data)}
        /\ last' = [op |-> "ent_add", args |-> [ty |-> ty, data |-> data], res |-> res]
        /\ issued' = IF res.kind = "Ok" THEN issued \cup {id} ELSE issued
        /\ written' = IF res.kind = "Ok"
                      THEN [written EXCEPT ![id] = Written(ty, data, FALSE)]
                      ELSE written
        /\ UNCHANGED <<tunables, assocs, now>>

\* --------------------------------------------------------------- ent_get
ent_get_result(rows, id) ==
    LET found == EntsWithId(rows, id)
    IN  CASE Cardinality(found) = 0 -> EntNotFound(id)
          [] Cardinality(found) = 1 ->
                LET ty == EntityType_from_u64(TheRow(found).type)
                IN  IF ty.kind = "Ok"
                    THEN Ok([ty |-> ty.val, data |-> TheRow(found).data])
                    ELSE ty
          [] OTHER -> EntUpdateModifiedTooManyRows(id, Cardinality(found))

ent_get(id) ==
    /\ last' = [op |-> "ent_get", args |-> [id |-> id], res |-> ent_get_result(ents, id)]
    /\ UNCHANGED <<tunables, ents, assocs, now, issued, written>>

\* ------------------------------------------------------------ ent_update
\* Variants of the UPDATE: without its WHERE clause, also setting the type,
\* and inserting the row when there is none.
ent_update_rows_NoWhere(rows, id, ty, data) ==
    {[r EXCEPT !.data = data] : r \in rows}
ent_update_rows_SetsType(rows, id, ty, data) ==
    {IF r.id = id THEN [r EXCEPT !.data = data, !.type = ty] ELSE r : r \in rows}
ent_update_rows_Upsert(rows, id, ty, data) ==
    IF EntsWithId(rows, id) = {}
    THEN rows \cup {EntRow(id, ty, data)}
    ELSE {IF r.id = id THEN [r EXCEPT !.data = data] ELSE r : r \in rows}

\* UPDATE ents SET data = ?2 WHERE id = ?1: the table afterwards.
ent_update_rows(rows, id, ty, data) ==
    {IF r.id = id THEN [r EXCEPT !.data = data] ELSE r : r \in rows}

\* Variant of the result: the type of the call instead of the row's.
ent_update_result_ArgTy(rows, id, ty, data) ==
    IF EntsWithId(rows, id) = {} THEN EntNotFound(id) ELSE Ok([ty |-> ty, data |-> data])

\* RETURNING type, and the value built from the returned rows.
ent_update_result(rows, id, ty, data) ==
    LET found == EntsWithId(rows, id)
    IN  CASE Cardinality(found) = 0 -> EntNotFound(id)
          [] Cardinality(found) = 1 ->
                LET t == EntityType_from_u64(TheRow(found).type)
                IN  IF t.kind = "Ok" THEN Ok([ty |-> t.val, data |-> data]) ELSE t
          [] OTHER -> EntUpdateModifiedTooManyRows(id, Cardinality(found))

ent_update(id, ty, data) ==
    LET res == ent_update_result(ents, id, ty, data)
    IN  /\ ents' = ent_update_rows(ents, id, ty, data)
        /\ last' = [op |-> "ent_update",
                    args |-> [id |-> id, ty |-> ty, data |-> data], res |-> res]
        /\ written' = IF res.kind = "Ok"
                      THEN [written EXCEPT ![id] = Written(written[id].ty, data, TRUE)]
                      ELSE written
        /\ UNCHANGED <<tunables, assocs, now, issued>>

\* ------------------------------------------------------------ ent_delete
\* Variant of the cascade: WHERE id1 = ?1 alone.
ent_delete_assocs_Id1Only(rows, id) == {a \in rows : a.id1 # id}

\* Variant of the cascade: WHERE id2 = ?1 alone.
ent_delete_assocs_Id2Only(rows, id) == {a \in rows : a.id2 # id}

\* DELETE FROM assocs WHERE id1 = ?1 OR id2 = ?1: the table afterwards.
ent_delete_assocs(rows, id) == {a \in rows : ~(a.id1 = id \/ a.id2 = id)}

\* Variants of the DELETE: WHERE id <= ?1, and no row deleted.
ent_delete_rows_UpTo(rows, id) == {r \in rows : r.id > id}
ent_delete_rows_Keeps(rows, id) == rows

\* DELETE FROM ents WHERE id = ?1: the table afterwards.
ent_delete_rows(rows, id) == rows \ EntsWithId(rows, id)

\* Variant of the commit: rolled back when no entity row was deleted.
ent_delete_aborts_NotFound(rows, id) ==
    \/ EntsWithId(rows, id) = {}
    \/ \E r \in EntsWithId(rows, id) : EntityType_from_u64(r.type).kind # "Ok"

\* Some returned row fails EntityType::from_u64: the `?` returns before the
\* commit and the dropped transaction rolls back.
ent_delete_aborts(rows, id) ==
    \E r \in EntsWithId(rows, id) : EntityType_from_u64(r.type).kind # "Ok"

\* nr_assocs of the log line: the rows the first DELETE removed.
ent_delete_nr_assocs(rows, id) == Cardinality(rows \ ent_delete_assocs(rows, id))

\* RETURNING type, data, and the value built from the returned rows.
ent_delete_result(rows, id) ==
    LET found == EntsWithId(rows, id)
    IN  CASE \E r \in found : EntityType_from_u64(r.type).kind # "Ok" ->
                ZeroIsNotAValidType
          [] Cardinality(found) = 0 -> EntNotFound(id)
          [] Cardinality(found) = 1 ->
                Ok([ty |-> TheRow(found).type, data |-> TheRow(found).data])
          [] OTHER -> EntUpdateModifiedTooManyRows(id, Cardinality(found))

ent_delete(id) ==
    LET res == ent_delete_result(ents, id)
    IN  /\ IF ent_delete_aborts(ents, id)
           THEN UNCHANGED <<ents, assocs>>
           ELSE /\ assocs' = ent_delete_assocs(assocs, id)
                /\ ents' = ent_delete_rows(ents, id)
        /\ last' = [op |-> "ent_delete", args |-> [id |-> id], res |-> res,
                    nr_assocs |-> ent_delete_nr_assocs(assocs, id)]
        /\ written' = IF res.kind = "Ok" THEN [written EXCEPT ![id] = NoEnt] ELSE written
        /\ UNCHANGED <<tunables, now, issued>>

\* ------------------------------------------------------------- assoc_add
\* INSERT INTO assocs: PRIMARY KEY (id1, id2, type) refuses a second row
\* with the same key, and rusqlite's error is wrapped by TeaSqliteError::wrap.
assoc_add_result(rows, ty, id1, id2) ==
    IF AssocsWithKey(rows, ty, id1, id2) # {} THEN StorageError ELSE Ok(NoArgs)

\* Variant of the INSERT: no row is stored.
assoc_add_rows_Dropped(rows, ty, id1, id2, ts, data) == rows

\* Variant of the INSERT: OR REPLACE, the row of the key is overwritten.
assoc_add_rows_Overwrites(rows, ty, id1, id2, ts, data) ==
    (rows \ AssocsWithKey(rows, ty, id1, id2)) \cup {AssocRow(id1, id2, ty, ts, data)}

assoc_add_rows(rows, ty, id1, id2, ts, data) ==
    IF AssocsWithKey(rows, ty, id1, id2) # {}
    THEN rows
    ELSE rows \cup {AssocRow(id1, id2, ty, ts, data)}

assoc_add(ty, id1, id2, data) ==
    /\ Cardinality(assoc_add_rows(assocs, ty, id1, id2, now, data)) <= MaxAssocs
    /\ assocs' = assoc_add_rows(assocs, ty, id1, id2, now, data)
    /\ last' = [op |-> "assoc_add",
                args |-> [ty |-> ty, id1 |-> id1, id2 |-> id2, data |-> data],
                res |-> assoc_add_result(assocs, ty, id1, id2)]
    /\ UNCHANGED <<tunables, ents, now, issued, written>>

\* ---------------------------------------------------------- assoc_delete
\* AssocStorage { ty, id1, id2, last_change, data }
AssocStorage(ty, id1, id2, ts, data) ==
    [ty |-> ty, id1 |-> id1, id2 |-> id2, last_change |-> ts, data |-> data]

\* Variant of the DELETE: WHERE id1 = ?2 AND id2 = ?3, of any type.
assoc_delete_rows_AnyType(rows, ty, id1, id2) ==
    {a \in rows : ~(a.id1 = id1 /\ a.id2 = id2)}

\* DELETE FROM assocs WHERE type = ?1 AND id1 = ?2 AND id2 = ?3: the table
\* afterwards.
assoc_delete_rows(rows, ty, id1, id2) == rows \ AssocsWithKey(rows, ty, id1, id2)

\* Variant of the result: the record without the data of the row.
assoc_delete_result_NoData(rows, ty, id1, id2) ==
    LET found == AssocsWithKey(rows, ty, id1, id2)
    IN  IF found = {}
        THEN AssocNotFound(ty, id1, id2)
        ELSE Ok(AssocStorage(ty, id1, id2, TheRow(found).last_change_unixtime, <<>>))

\* RETURNING last_change_unixtime, data, and the value built from the returned
\* rows.
assoc_delete_result(rows, ty, id1, id2) ==
    LET found == AssocsWithKey(rows, ty, id1, id2)
    IN  CASE Cardinality(found) = 0 -> AssocNotFound(ty, id1, id2)
          [] Cardinality(found) = 1 ->
                Ok(AssocStorage(ty, id1, id2,
                                TheRow(found).last_change_unixtime, TheRow(found).data))
          [] OTHER -> AssocUpdateModifiedTooManyRows(ty, id1, id2, Cardinality(found))

assoc_delete(ty, id1, id2) ==
    /\ assocs' = assoc_delete_rows(assocs, ty, id1, id2)
    /\ last' = [op |-> "assoc_delete",
                args |-> [ty |-> ty, id1 |-> id1, id2 |-> id2],
                res |-> assoc_delete_result(assocs, ty, id1, id2)]
    /\ UNCHANGED <<tunables, ents, now, issued, written>>

\* ----------------------------------------------------- assoc_change_type
\* Variant of the conflict: the UPDATE goes through whatever key it takes.
assoc_change_type_conflict_Never(rows, ty, id1, id2, new_ty) == FALSE
\* UPDATE assocs SET type = ?1, last_change_unixtime = ?2 WHERE type = ?3 AND
\* id1 = ?4 AND id2 = ?5 fails on the primary key when the row it rewrites
\* would take the key of another row.
assoc_change_type_conflict(rows, ty, id1, id2, new_ty) ==
    /\ AssocsWithKey(rows, ty, id1, id2) # {}
    /\ new_ty # ty
    /\ AssocsWithKey(rows, new_ty, id1, id2) # {}

\* Variant of the UPDATE: the row of the old type stays beside the new one.
assoc_change_type_rows_Copies(rows, ty, id1, id2, new_ty, ts) ==
    IF assoc_change_type_conflict(rows, ty, id1, id2, new_ty)
    THEN rows
    ELSE rows \cup {[a EXCEPT !.type = new_ty, !.last_change_unixtime = ts] :
                       a \in AssocsWithKey(rows, ty, id1, id2)}

\* Variant of the UPDATE: OR REPLACE, the row holding the key gives way.
assoc_change_type_rows_Replaces(rows, ty, id1, id2, new_ty, ts) ==
    {[a EXCEPT !.type = new_ty, !.last_change_unixtime = ts] :
        a \in AssocsWithKey(rows, ty, id1, id2)}
    \cup (rows \ (AssocsWithKey(rows, ty, id1, id2)
                   \cup AssocsWithKey(rows, new_ty, id1, id2)))

\* Variant of the UPDATE: SET type = ?1 only.
assoc_change_type_rows_KeepsTime(rows, ty, id1, id2, new_ty, ts) ==
    IF assoc_change_type_conflict(rows, ty, id1, id2, new_ty)
    THEN rows
    ELSE {IF a \in AssocsWithKey(rows, ty, id1, id2)
          THEN [a EXCEPT !.type = new_ty]
          ELSE a : a \in rows}

assoc_change_type_rows(rows, ty, id1, id2, new_ty, ts) ==
    IF assoc_change_type_conflict(rows, ty, id1, id2, new_ty)
    THEN rows
    ELSE {IF a \in AssocsWithKey(rows, ty, id1, id2)
          THEN [a EXCEPT !.type = new_ty, !.last_change_unixtime = ts]
          ELSE a : a \in rows}

\* RETURNING last_change_unixtime, data gives the row as updated.
assoc_change_type_result(rows, ty, id1, id2, new_ty, ts) ==
    LET found == AssocsWithKey(rows, ty, id1, id2)
    IN  CASE assoc_change_type_conflict(rows, ty, id1, id2, new_ty) -> StorageError
          [] Cardinality(found) = 0 -> AssocNotFound(ty, id1, id2)
          [] Cardinality(found) = 1 ->
                Ok(AssocStorage(new_ty, id1, id2, ts, TheRow(found).data))
          [] OTHER -> AssocUpdateModifiedTooManyRows(ty, id1, id2, Cardinality(found))

assoc_change_type(ty, id1, id2, new_ty) ==
    /\ assocs' = assoc_change_type_rows(assocs, ty, id1, id2, new_ty, now)
    /\ last' = [op |-> "assoc_change_type",
                args |-> [ty |-> ty, id1 |-> id1, id2 |-> id2, new_ty |-> new_ty],
                res |-> assoc_change_type_result(assocs, ty, id1, id2, new_ty, now)]
    /\ UNCHANGED <<tunables, ents, now, issued, written>>

\* ---------------------------------------------------------------- queries
AssocRangePageTooLarge(requested_limit, maximum_limit) ==
    [kind |-> "AssocRangePageTooLarge",
     requested_limit |-> requested_limit, maximum_limit |-> maximum_limit]

\* Option<DateTime<Utc>>
None == [some |-> FALSE]
Some(v) == [some |-> TRUE, val |-> v]

\* AssocRangeAfter and AssocRangeLimit (types.rs).
First == [kind |-> "First"]
ID(id) == [kind |-> "ID", id |-> id]
Default == [kind |-> "Default"]
Limit(n) == [kind |-> "Limit", n |-> n]
Maximum == [kind |-> "Maximum"]

Min(a, b) == IF a <= b THEN a ELSE b

\* The rows of a result set in every order the statement allows: all of them
\* without ORDER BY, and with ORDER BY the ones sorted on the key, rows with
\* equal keys in either order.
Perms(S) ==
    {f \in [1..Cardinality(S) -> S] :
        \A i, j \in 1..Cardinality(S) : i # j => f[i] # f[j]}
\* Variant of ORDER BY id2 ASC: DESC.
OrderById2Asc_Desc(S) ==
    {f \in Perms(S) : \A i, j \in DOMAIN f : i < j => f[i].id2 >= f[j].id2}

OrderById2Asc(S) ==
    {f \in Perms(S) : \A i, j \in DOMAIN f : i < j => f[i].id2 <= f[j].id2}
OrderByLastChangeDesc(S) ==
    {f \in Perms(S) :
        \A i, j \in DOMAIN f :
            i < j => f[i].last_change_unixtime >= f[j].last_change_unixtime}
\* Variant of LIMIT n: the last n rows.
LimitRows_Tail(f, n) == SubSeq(f, Len(f) - Min(n, Len(f)) + 1, Len(f))

\* LIMIT n
LimitRows(f, n) == SubSeq(f, 1, Min(n, Len(f)))

\* Variant of the match: Default gives the smaller of the two variables.
ResolveLimit_Clamped(limit, max, default) ==
    CASE limit.kind = "Default" -> Min(default, max)
      [] limit.kind = "Limit" -> limit.n
      [] limit.kind = "Maximum" -> max

\* The match on `limit` at the head of assoc_range and assoc_time_range.
ResolveLimit(limit, max, default) ==
    CASE limit.kind = "Default" -> default
      [] limit.kind = "Limit" -> limit.n
      [] limit.kind = "Maximum" -> max

\* The closure mapped over the rows of assoc_range and assoc_time_range: ty
\* and id1 are the arguments, id2 goes through EntityId::from_u64, and the
\* first error ends the collect.
RangeStorage(page, ty, id1) ==
    IF \E i \in DOMAIN page : EntityId_from_u64(page[i].id2).kind # "Ok"
    THEN ZeroIsNotAValidID
    ELSE Ok([i \in DOMAIN page |->
                AssocStorage(ty, id1, page[i].id2,
                             page[i].last_change_unixtime, page[i].data)])

\* ------------------------------------------------------------- assoc_get
\* Variant of the WHERE: without a high there is no upper bound.
assoc_get_rows_Unbounded(rows, ty, id1, id2_set, high, low, clock) ==
    LET l == IF low.some THEN low.val ELSE 0
    IN  {a \in rows : /\ a.type = ty
                      /\ a.id1 = id1
                      /\ (high.some => a.last_change_unixtime <= high.val)
                      /\ a.last_change_unixtime >= l
                      /\ a.id2 \in id2_set}

\* WHERE type = ?1 AND id1 = ?2 AND last_change_unixtime <= ?3 AND
\* last_change_unixtime >= ?4 AND id2 in (...); high defaults to the clock
\* and low to 0.
assoc_get_rows(rows, ty, id1, id2_set, high, low, clock) ==
    LET h == IF high.some THEN high.val ELSE clock
        l == IF low.some THEN low.val ELSE 0
    IN  {a \in rows : /\ a.type = ty
                      /\ a.id1 = id1
                      /\ a.last_change_unixtime <= h
                      /\ a.last_change_unixtime >= l
                      /\ a.id2 \in id2_set}

\* Variant of the constructor: from_u64_unchecked, any value is taken.
AssocType_from_u64_Unchecked(v) == Ok(v)

\* AssocType::from_u64: zero is rejected, with the error of the ids.
AssocType_from_u64(v) == IF v = 0 THEN ZeroIsNotAValidID ELSE Ok(v)

\* type, id1 and id2 of every row go through try_into, and the first error
\* ends the collect.
GetStorage(f) ==
    IF \E i \in DOMAIN f : \/ AssocType_from_u64(f[i].type).kind # "Ok"
                           \/ EntityId_from_u64(f[i].id1).kind # "Ok"
                           \/ EntityId_from_u64(f[i].id2).kind # "Ok"
    THEN ZeroIsNotAValidID
    ELSE Ok([i \in DOMAIN f |->
                AssocStorage(f[i].type, f[i].id1, f[i].id2,
                             f[i].last_change_unixtime, f[i].data)])

assoc_get_results(rows, ty, id1, id2_set, high, low, clock) ==
    {GetStorage(f) : f \in Perms(assoc_get_rows(rows, ty, id1, id2_set, high, low, clock))}

assoc_get(ty, id1, id2_set, high, low) ==
    /\ \E res \in assoc_get_results(assocs, ty, id1, id2_set, high, low, now) :
          last' = [op |-> "assoc_get",
                   args |-> [ty |-> ty, id1 |-> id1, id2_set |-> id2_set,
                             high |-> high, low |-> low],
                   res |-> res]
    /\ UNCHANGED <<tunables, ents, assocs, now, issued, written>>

\* id2 in (?, ?, ...): one placeholder per element of the slice id2_set, each
\* bound to the element at its place; the list as SQLite tests a row against
\* it.
InList(id2_set) == {id2_set[i] : i \in DOMAIN id2_set}

\* Variant of the query: one row for every element of the slice that has a
\* match, as a join of the slice with the table gives.
assoc_get_slice_results_PerElement(rows, ty, id1, id2_set, high, low, clock) ==
    LET hit(id2) == assoc_get_rows(rows, ty, id1, {id2}, high, low, clock)
        found == SelectSeq(id2_set, LAMBDA id2 : hit(id2) # {})
    IN  {GetStorage([i \in DOMAIN found |-> CHOOSE a \in hit(found[i]) : TRUE])}

\* The results of assoc_get on a slice id2_set, ids repeated or not.
assoc_get_slice_results(rows, ty, id1, id2_set, high, low, clock) ==
    assoc_get_results(rows, ty, id1, InList(id2_set), high, low, clock)

\* assoc_get with id2_set as the caller passes it, a slice.
assoc_get_slice(ty, id1, id2_set, high, low) ==
    /\ \E res \in assoc_get_slice_results(assocs, ty, id1, id2_set, high, low, now) :
          last' = [op |-> "assoc_get",
                   args |-> [ty |-> ty, id1 |-> id1, id2_set |-> id2_set,
                             high |-> high, low |-> low],
                   res |-> res]
    /\ UNCHANGED <<tunables, ents, assocs, now, issued, written>>

\* ----------------------------------------------------------- assoc_count
\* Variant of the count: WHERE id1 = ?2, of any type.
assoc_count_result_AnyType(rows, ty, id1) ==
    Ok(Cardinality({a \in rows : a.id1 = id1}))

\* SELECT count(*) FROM assocs WHERE type = ?1 AND id1 = ?2
assoc_count_result(rows, ty, id1) ==
    Ok(Cardinality({a \in rows : a.type = ty /\ a.id1 = id1}))

assoc_count(ty, id1) ==
    /\ last' = [op |-> "assoc_count", args |-> [ty |-> ty, id1 |-> id1],
                res |-> assoc_count_result(assocs, ty, id1)]
    /\ UNCHANGED <<tunables, ents, assocs, now, issued, written>>

\* ----------------------------------------------------------- assoc_range
\* Variant of the check: limit >= maximum_limit.
PageTooLarge_AtMaximum(limit, max) == limit >= max

\* if limit > maximum_limit { return Err(AssocRangePageTooLarge { .. }) }
PageTooLarge(limit, max) == limit > max

\* The cursor bound to ?3: 0 for First.
AfterId(after) == IF after.kind = "First" THEN 0 ELSE after.id

\* Variant of the WHERE: id2 >= ?3, the cursor is in the page.
assoc_range_rows_Inclusive(rows, ty, id1, after) ==
    {a \in rows : a.type = ty /\ a.id1 = id1 /\ a.id2 >= AfterId(after)}

\* WHERE type = ?1 AND id1 = ?2 AND id2 > ?3
assoc_range_rows(rows, ty, id1, after) ==
    {a \in rows : a.type = ty /\ a.id1 = id1 /\ a.id2 > AfterId(after)}

\* ORDER BY id2 ASC LIMIT ?4, after the check of the resolved limit.
assoc_range_results(rows, ty, id1, after, limit, max, default) ==
    LET lim == ResolveLimit(limit, max, default)
    IN  IF PageTooLarge(lim, max)
        THEN {AssocRangePageTooLarge(lim, max)}
        ELSE {RangeStorage(LimitRows(f, lim), ty, id1) :
                 f \in OrderById2Asc(assoc_range_rows(rows, ty, id1, after))}

assoc_range(ty, id1, after, limit) ==
    /\ \E res \in assoc_range_results(assocs, ty, id1, after, limit,
                                      MAX_ASSOCS_PER_PAGE, DEFAULT_ASSOCS_PER_PAGE) :
          last' = [op |-> "assoc_range",
                   args |-> [ty |-> ty, id1 |-> id1, after |-> after, limit |-> limit],
                   res |-> res]
    /\ UNCHANGED <<tunables, ents, assocs, now, issued, written>>

\* Pagination as the caller does it: the first page with First, every next
\* page with the last id2 of the page before in ID, until a page is empty or
\* a call fails; the pages are chained.
RECURSIVE Paginate(_, _, _, _, _, _, _)
Paginate(rows, ty, id1, after, limit, max, default) ==
    UNION {IF res.kind # "Ok" THEN {res}
           ELSE IF res.val = <<>> THEN {Ok(<<>>)}
           ELSE {IF rest.kind = "Ok" THEN Ok(res.val \o rest.val) ELSE rest :
                    rest \in Paginate(rows, ty, id1, ID(res.val[Len(res.val)].id2),
                                      limit, max, default)} :
           res \in assoc_range_results(rows, ty, id1, after, limit, max, default)}

\* ------------------------------------------------------ assoc_time_range
\* Variant of the WHERE: high bound to ?3 and low to ?4.
assoc_time_range_rows_Swapped(rows, ty, id1, high, low) ==
    {a \in rows : /\ a.type = ty
                  /\ a.id1 = id1
                  /\ a.last_change_unixtime >= high
                  /\ a.last_change_unixtime <= low}

\* WHERE type = ?1 AND id1 = ?2 AND last_change_unixtime >= ?3 AND
\* last_change_unixtime <= ?4, with low bound to ?3 and high to ?4.
assoc_time_range_rows(rows, ty, id1, high, low) ==
    {a \in rows : /\ a.type = ty
                  /\ a.id1 = id1
                  /\ a.last_change_unixtime >= low
                  /\ a.last_change_unixtime <= high}

\* ORDER BY last_change_unixtime DESC LIMIT ?5, after the check of the
\* resolved limit.
assoc_time_range_results(rows, ty, id1, high, low, limit, max, default) ==
    LET lim == ResolveLimit(limit, max, default)
    IN  IF PageTooLarge(lim, max)
        THEN {AssocRangePageTooLarge(lim, max)}
        ELSE {RangeStorage(LimitRows(f, lim), ty, id1) :
                 f \in OrderByLastChangeDesc(assoc_time_range_rows(rows, ty, id1, high, low))}

assoc_time_range(ty, id1, high, low, limit) ==
    /\ \E res \in assoc_time_range_results(assocs, ty, id1, high, low, limit,
                                           MAX_ASSOCS_PER_PAGE, DEFAULT_ASSOCS_PER_PAGE) :
          last' = [op |-> "assoc_time_range",
                   args |-> [ty |-> ty, id1 |-> id1, high |-> high, low |-> low,
                             limit |-> limit],
                   res |-> res]
    /\ UNCHANGED <<tunables, ents, assocs, now, issued, written>>

\* ------------------------------------------- the paginated calls, in steps
\* assoc_range and assoc_time_range read the config variables in two places:
\* `let maximum_limit = MAX_ASSOCS_PER_PAGE.get()` first, and the get() of the
\* arm of `match limit` after it. Config::get takes the read lock for the
\* time of one read only, so a Config::set of another thread can fall between
\* the two. `enter` is the first read, `return` the rest of the call.
OwnerFree == \A w \in Workers : workers[w] = Idle

assoc_range_results_at(rows, ty, id1, after, limit, maximum_limit, max, default) ==
    LET lim == ResolveLimit(limit, max, default)
    IN  IF PageTooLarge(lim, maximum_limit)
        THEN {AssocRangePageTooLarge(lim, maximum_limit)}
        ELSE {RangeStorage(LimitRows(f, lim), ty, id1) :
                 f \in OrderById2Asc(assoc_range_rows(rows, ty, id1, after))}

assoc_range_enter(w, ty, id1, after, limit) ==
    /\ OwnerFree
    /\ workers' = [workers EXCEPT ![w] =
                      [pc |-> "assoc_range",
                       args |-> [ty |-> ty, id1 |-> id1, after |-> after, limit |-> limit],
                       maximum_limit |-> MAX_ASSOCS_PER_PAGE]]
    /\ UNCHANGED <<tunables, mutex, ents, assocs, now, last, issued, written>>

assoc_range_return(w) ==
    /\ workers[w].pc = "assoc_range"
    /\ \E res \in assoc_range_results_at(assocs, workers[w].args.ty, workers[w].args.id1,
                                         workers[w].args.after, workers[w].args.limit,
                                         workers[w].maximum_limit,
                                         MAX_ASSOCS_PER_PAGE, DEFAULT_ASSOCS_PER_PAGE) :
          last' = [op |-> "assoc_range", args |-> workers[w].args, res |-> res]
    /\ workers' = [workers EXCEPT ![w] = Idle]
    /\ UNCHANGED <<tunables, mutex, ents, assocs, now, issued, written>>

assoc_time_range_results_at(rows, ty, id1, high, low, limit, maximum_limit, max, default) ==
    LET lim == ResolveLimit(limit, max, default)
    IN  IF PageTooLarge(lim, maximum_limit)
        THEN {AssocRangePageTooLarge(lim, maximum_limit)}
        ELSE {RangeStorage(LimitRows(f, lim), ty, id1) :
                 f \in OrderByLastChangeDesc(assoc_time_range_rows(rows, ty, id1, high, low))}

assoc_time_range_enter(w, ty, id1, high, low, limit) ==
    /\ OwnerFree
    /\ workers' = [workers EXCEPT ![w] =
                      [pc |-> "assoc_time_range",
                       args |-> [ty |-> ty, id1 |-> id1, high |-> high, low |-> low,
                                 limit |-> limit],
                       maximum_limit |-> MAX_ASSOCS_PER_PAGE]]
    /\ UNCHANGED <<tunables, mutex, ents, assocs, now, last, issued, written>>

assoc_time_range_return(w) ==
    /\ workers[w].pc = "assoc_time_range"
    /\ \E res \in assoc_time_range_results_at(assocs, workers[w].args.ty, workers[w].args.id1,
                                              workers[w].args.high, workers[w].args.low,
                                              workers[w].args.limit, workers[w].maximum_limit,
                                              MAX_ASSOCS_PER_PAGE, DEFAULT_ASSOCS_PER_PAGE) :
          last' = [op |-> "assoc_time_range", args |-> workers[w].args, res |-> res]
    /\ workers' = [workers EXCEPT ![w] = Idle]
    /\ UNCHANGED <<tunables, mutex, ents, assocs, now, issued, written>>

\* ------------------------------------------------------------ Config::set
\* MAX_ASSOCS_PER_PAGE.set(value) and DEFAULT_ASSOCS_PER_PAGE.set(value),
\* reached through the registry by set_from_ron.
MAX_ASSOCS_PER_PAGE_set(value) ==
    /\ MAX_ASSOCS_PER_PAGE' = value
    /\ UNCHANGED <<DEFAULT_ASSOCS_PER_PAGE, REGISTRY, statics,
                   ents, assocs, now, last, issued, written>>

DEFAULT_ASSOCS_PER_PAGE_set(value) ==
    /\ DEFAULT_ASSOCS_PER_PAGE' = value
    /\ UNCHANGED <<MAX_ASSOCS_PER_PAGE, REGISTRY, statics,
                   ents, assocs, now, last, issued, written>>

\* ----------------------------------------------------- the config registry
\* The value a config holds, and the tables after *guard = value.
ValueOf(c) ==
    IF c = "MAX_ASSOCS_PER_PAGE" THEN MAX_ASSOCS_PER_PAGE ELSE DEFAULT_ASSOCS_PER_PAGE
DefaultOf(c) ==
    IF c = "MAX_ASSOCS_PER_PAGE" THEN MAX_ASSOCS_PER_PAGE_default
    ELSE DEFAULT_ASSOCS_PER_PAGE_default
Store(c, value) ==
    /\ MAX_ASSOCS_PER_PAGE' = IF c = "MAX_ASSOCS_PER_PAGE" THEN value
                              ELSE MAX_ASSOCS_PER_PAGE
    /\ DEFAULT_ASSOCS_PER_PAGE' = IF c = "DEFAULT_ASSOCS_PER_PAGE" THEN value
                                  ELSE DEFAULT_ASSOCS_PER_PAGE

\* Variant of init: the closure runs without the Once.
init_enter_NoOnce(w, c) ==
    /\ workers[w] = Idle
    /\ statics[c].init # "running"
    /\ statics' = [statics EXCEPT ![c].init = "running"]
    /\ workers' = [workers EXCEPT ![w] = [pc |-> "call_once", config |-> c]]
    /\ UNCHANGED <<MAX_ASSOCS_PER_PAGE, DEFAULT_ASSOCS_PER_PAGE, REGISTRY,
                   mutex, ents, assocs, now, last, issued, written>>

\* Config::init, self.__init.call_once(..): the first caller runs the closure;
\* a caller that finds the Once running waits for it, and one that finds it
\* complete returns at once (init_again).
init_enter(w, c) ==
    /\ workers[w] = Idle
    /\ statics[c].init = "new"
    /\ statics' = [statics EXCEPT ![c].init = "running"]
    /\ workers' = [workers EXCEPT ![w] = [pc |-> "call_once", config |-> c]]
    /\ UNCHANGED <<MAX_ASSOCS_PER_PAGE, DEFAULT_ASSOCS_PER_PAGE, REGISTRY,
                   mutex, ents, assocs, now, last, issued, written>>

init_again(w, c) ==
    /\ workers[w] = Idle
    /\ statics[c].init = "done"
    /\ last' = [op |-> "init", args |-> [config |-> c], res |-> Ok(NoArgs)]
    /\ UNCHANGED <<tunables, shared, ents, assocs, now, issued, written>>

\* self.__value.store(Box::leak(Box::new(RwLock::new((self.default_value)()))))
init_store(w) ==
    /\ workers[w].pc = "call_once"
    /\ Store(workers[w].config, DefaultOf(workers[w].config))
    /\ workers' = [workers EXCEPT ![w].pc = "register"]
    /\ UNCHANGED <<REGISTRY, statics, mutex, ents, assocs, now, last, issued, written>>

\* REGISTRY.register(self) under the write lock: new_config.set_next(*guard);
\* *guard = Some(new_config). The closure ends and the Once is complete.
init_register(w) ==
    LET c == workers[w].config
    IN  /\ workers[w].pc = "register"
        /\ statics' = [statics EXCEPT ![c] = [init |-> "done", next |-> REGISTRY]]
        /\ REGISTRY' = c
        /\ workers' = [workers EXCEPT ![w] = Idle]
        /\ last' = [op |-> "init", args |-> [config |-> c], res |-> Ok(NoArgs)]
        /\ UNCHANGED <<MAX_ASSOCS_PER_PAGE, DEFAULT_ASSOCS_PER_PAGE,
                       mutex, ents, assocs, now, issued, written>>

\* ConfigIterator: the configs met from `current` on by get_next, until None.
\* A walk of more steps than there are configs is in a cycle and has no end.
Endless == [kind |-> "Endless"]
RECURSIVE Walk(_, _, _)
Walk(current, links, steps) ==
    IF current = NoConfig THEN Ok(<<>>)
    ELSE IF steps = 0 THEN Endless
    ELSE LET rest == Walk(links[current].next, links, steps - 1)
         IN  IF rest.kind = "Ok" THEN Ok(<<current>> \o rest.val) ELSE rest

\* REGISTRY.iter() read to its end. The configs in the list have their link
\* written before they are put in and never after, so what an iterator meets
\* is the list as it was when iter() read the head.
iter ==
    /\ last' = [op |-> "iter", args |-> NoArgs,
                res |-> Walk(REGISTRY, statics, Cardinality(Configs))]
    /\ UNCHANGED <<tunables, shared, ents, assocs, now, issued, written>>

\* RON text, as the sequence of its characters. ron::ser::to_string of a
\* usize is its decimal digits, and ron::de::from_str::<usize> of decimal
\* digits is the number they write; text that is no number is refused.
Digit == <<"0", "1", "2", "3", "4", "5", "6", "7", "8", "9">>
DigitValue(ch) == (CHOOSE i \in DOMAIN Digit : Digit[i] = ch) - 1
RECURSIVE to_string(_)
to_string(value) ==
    IF value < 10 THEN <<Digit[value + 1]>>
    ELSE to_string(value \div 10) \o <<Digit[(value % 10) + 1]>>
RonError == [kind |-> "Err"]
RECURSIVE Number(_)
Number(ron) ==
    IF Len(ron) = 1 THEN DigitValue(ron[1])
    ELSE 10 * Number(SubSeq(ron, 1, Len(ron) - 1)) + DigitValue(ron[Len(ron)])
\* Variant of the parser: the text is read up to its first character.
from_str_FirstDigit(ron) ==
    IF ron # <<>> /\ \A i \in DOMAIN ron : \E d \in DOMAIN Digit : Digit[d] = ron[i]
    THEN Ok(DigitValue(ron[1]))
    ELSE RonError
from_str(ron) ==
    IF ron # <<>> /\ \A i \in DOMAIN ron : \E d \in DOMAIN Digit : Digit[d] = ron[i]
    THEN Ok(Number(ron))
    ELSE RonError

\* Config::get, Config::set and the Configurable methods as_ron and
\* set_from_ron, on a config whose __value init has stored.
Config_get(c) ==
    /\ ValueOf(c) # Null
    /\ last' = [op |-> "get", args |-> [config |-> c], res |-> ValueOf(c)]
    /\ UNCHANGED <<tunables, shared, ents, assocs, now, issued, written>>

Config_set(c, value) ==
    /\ ValueOf(c) # Null
    /\ Store(c, value)
    /\ last' = [op |-> "set", args |-> [config |-> c, value |-> value], res |-> NoArgs]
    /\ UNCHANGED <<REGISTRY, statics, shared, ents, assocs, now, issued, written>>

Config_as_ron(c) ==
    /\ ValueOf(c) # Null
    /\ last' = [op |-> "as_ron", args |-> [config |-> c], res |-> to_string(ValueOf(c))]
    /\ UNCHANGED <<tunables, shared, ents, assocs, now, issued, written>>

Config_set_from_ron(c, ron) ==
    LET new_value == from_str(ron)
    IN  /\ ValueOf(c) # Null
        /\ IF new_value.kind = "Ok"
           THEN Store(c, new_value.val)
           ELSE UNCHANGED <<MAX_ASSOCS_PER_PAGE, DEFAULT_ASSOCS_PER_PAGE>>
        /\ last' = [op |-> "set_from_ron", args |-> [config |-> c, ron |-> ron],
                    res |-> IF new_value.kind = "Ok" THEN Ok(NoArgs) ELSE RonError]
        /\ UNCHANGED <<REGISTRY, statics, shared, ents, assocs, now, issued, written>>

\* ----------------------------------------------------------------- clock
\* A second passes between two calls. It is a step of SpecAssoc; the other
\* specifications keep the clock at its first second.
Tick ==
    /\ now < MaxTime
    /\ now' = now + 1
    /\ UNCHANGED <<tunables, ents, assocs, last, issued, written>>

\* ---------------------------------------------------- SharedTeaConnection
\* Every method of the wrapper is self.conn.lock()?.<method>(..): the thread
\* enters the method, takes the mutex, calls the method of the connection
\* inside, and drops the guard when the statement ends, handing the result to
\* its caller. A worker is a thread holding a clone; `mutex` is the worker
\* holding the guard.
Entered(w, op, args) == [pc |-> "lock", op |-> op, args |-> args]

\* The thread enters a method of its clone.
call(w, op, args) ==
    /\ workers[w].pc \in {"idle", "returned"}
    /\ workers' = [workers EXCEPT ![w] = Entered(w, op, args)]
    /\ UNCHANGED <<tunables, mutex, ents, assocs, now, last, issued, written>>

\* Variant of lock: the guard is handed out whoever holds the mutex.
lock_Unguarded(w) ==
    /\ workers[w].pc = "lock"
    /\ mutex' = w
    /\ workers' = [workers EXCEPT ![w].pc = "locked"]
    /\ UNCHANGED <<tunables, ents, assocs, now, last, issued, written>>

\* self.conn.lock()?: blocks until no thread holds the mutex.
lock(w) ==
    /\ workers[w].pc = "lock"
    /\ mutex = NoWorker
    /\ mutex' = w
    /\ workers' = [workers EXCEPT ![w].pc = "locked"]
    /\ UNCHANGED <<tunables, ents, assocs, now, last, issued, written>>

\* The worker after the method of the connection inside has returned res.
Done(w, res) == [pc |-> "done", op |-> workers[w].op, args |-> workers[w].args, res |-> res]

\* The call of the connection inside, through the guard.
shared_ent_add(w) ==
    /\ workers[w].pc = "locked"
    /\ workers[w].op = "ent_add"
    /\ ent_add(workers[w].args.ty, workers[w].args.data)
    /\ workers' = [workers EXCEPT ![w] = Done(w, last'.res)]
    /\ UNCHANGED mutex

shared_ent_get(w) ==
    /\ workers[w].pc = "locked"
    /\ workers[w].op = "ent_get"
    /\ ent_get(workers[w].args.id)
    /\ workers' = [workers EXCEPT ![w] = Done(w, last'.res)]
    /\ UNCHANGED mutex

shared_assoc_add(w) ==
    /\ workers[w].pc = "locked"
    /\ workers[w].op = "assoc_add"
    /\ assoc_add(workers[w].args.ty, workers[w].args.id1, workers[w].args.id2,
                 workers[w].args.data)
    /\ workers' = [workers EXCEPT ![w] = Done(w, last'.res)]
    /\ UNCHANGED mutex

\* The guard is dropped at the end of the statement and the method returns.
unlock(w) ==
    /\ workers[w].pc = "done"
    /\ mutex' = IF mutex = w THEN NoWorker ELSE mutex
    /\ workers' = [workers EXCEPT ![w].pc = "returned"]
    /\ UNCHANGED <<tunables, ents, assocs, now, last, issued, written>>

shared_assoc_count(w) ==
    /\ workers[w].pc = "locked"
    /\ workers[w].op = "assoc_count"
    /\ assoc_count(workers[w].args.ty, workers[w].args.id1)
    /\ workers' = [workers EXCEPT ![w] = Done(w, last'.res)]
    /\ UNCHANGED mutex

\* Variant of the first statement: the guard is given back after it, as if
\* each statement took the lock for itself.
shared_ent_delete_assocs_Unlocks(w) ==
    /\ workers[w].pc = "locked"
    /\ workers[w].op = "ent_delete"
    /\ assocs' = ent_delete_assocs(assocs, workers[w].args.id)
    /\ workers' = [workers EXCEPT ![w] =
                      [pc |-> "txn", op |-> "ent_delete", args |-> workers[w].args,
                       before |-> assocs]]
    /\ mutex' = NoWorker
    /\ UNCHANGED <<tunables, ents, now, last, issued, written>>

\* ent_delete through the guard, statement by statement. The first DELETE
\* runs inside the transaction: the assocs of the entity are gone for whoever
\* reads through this connection, and come back if the transaction is dropped.
shared_ent_delete_assocs(w) ==
    /\ workers[w].pc = "locked"
    /\ workers[w].op = "ent_delete"
    /\ assocs' = ent_delete_assocs(assocs, workers[w].args.id)
    /\ workers' = [workers EXCEPT ![w] =
                      [pc |-> "txn", op |-> "ent_delete", args |-> workers[w].args,
                       before |-> assocs]]
    /\ UNCHANGED <<tunables, mutex, ents, now, last, issued, written>>

\* The second DELETE, the match on the returned rows and txn.commit(), or the
\* rollback of the dropped transaction when a returned type is refused.
shared_ent_delete_commit(w) ==
    LET id == workers[w].args.id
        res == ent_delete_result(ents, id)
    IN  /\ workers[w].pc = "txn"
        /\ IF ent_delete_aborts(ents, id)
           THEN assocs' = workers[w].before /\ UNCHANGED ents
           ELSE ents' = ent_delete_rows(ents, id) /\ UNCHANGED assocs
        /\ last' = [op |-> "ent_delete", args |-> [id |-> id], res |-> res,
                    nr_assocs |-> Cardinality(workers[w].before \ assocs)]
        /\ written' = IF res.kind = "Ok" THEN [written EXCEPT ![id] = NoEnt] ELSE written
        /\ workers' = [workers EXCEPT ![w] = Done(w, res)]
        /\ UNCHANGED <<tunables, mutex, now, issued>>

\* ------------------------------------------------------------- poisoning
\* A std Mutex whose guard was dropped by a panicking thread is poisoned: it
\* is free, and every lock() of it from then on returns Err(PoisonError).
Poisoned == 0 - 1
SharedResourcePoisoned == [kind |-> "SharedResourcePoisoned"]
\* The call ended by unwinding instead of returning.
Unwound == [kind |-> "panic"]

\* Variant of the panic: the guard is never dropped, the mutex stays taken.
panic_Holds(w) ==
    /\ workers[w].pc \in {"locked", "txn"}
    /\ mutex = w
    /\ assocs' = IF workers[w].pc = "txn" THEN workers[w].before ELSE assocs
    /\ workers' = [workers EXCEPT ![w] =
                      [pc |-> "returned", op |-> workers[w].op, args |-> workers[w].args,
                       res |-> Unwound]]
    /\ UNCHANGED <<tunables, mutex, ents, now, last, issued, written>>

\* The thread panics inside the call of the connection: the stack unwinds, an
\* open transaction is dropped and rolls back, and the guard is dropped and
\* poisons the mutex.
panic(w) ==
    /\ workers[w].pc \in {"locked", "txn"}
    /\ mutex = w
    /\ assocs' = IF workers[w].pc = "txn" THEN workers[w].before ELSE assocs
    /\ workers' = [workers EXCEPT ![w] =
                      [pc |-> "returned", op |-> workers[w].op, args |-> workers[w].args,
                       res |-> Unwound]]
    /\ mutex' = Poisoned
    /\ UNCHANGED <<tunables, ents, now, last, issued, written>>

\* Variant of the `?`: the guard inside the PoisonError is taken and used.
lock_poisoned_Recovers(w) ==
    /\ workers[w].pc = "lock"
    /\ mutex = Poisoned
    /\ mutex' = w
    /\ workers' = [workers EXCEPT ![w].pc = "locked"]
    /\ UNCHANGED <<tunables, ents, assocs, now, last, issued, written>>

\* self.conn.lock()? on the poisoned mutex: the `?` turns the PoisonError into
\* TeaError::SharedResourcePoisoned and returns it, dropping the guard that
\* came with the error; the method of the connection is not called.
lock_poisoned(w) ==
    /\ workers[w].pc = "lock"
    /\ mutex = Poisoned
    /\ workers' = [workers EXCEPT ![w] =
                      [pc |-> "returned", op |-> workers[w].op, args |-> workers[w].args,
                       res |-> SharedResourcePoisoned]]
    /\ UNCHANGED <<tunables, mutex, ents, assocs, now, last, issued, written>>

\* ------------------------------------------------------- ids and type tags
\* as_u64 of the three wrappers of NonZeroU64: self.0.into(), the wrapped
\* value.
EntityId_as_u64(id) == id
EntityType_as_u64(ty) == ty
AssocType_as_u64(ty) == ty

\* TryFrom<u64>::try_from of each wrapper calls its from_u64; the caller reads
\* the value back with as_u64.
EntityId_try_from(value) ==
    /\ LET res == EntityId_from_u64(value)
       IN  last' = [op |-> "EntityId::try_from", args |-> [value |-> value],
                    res |-> res,
                    as_u64 |-> IF res.kind = "Ok"
                               THEN Some(EntityId_as_u64(res.val))
                               ELSE None]
    /\ UNCHANGED <<tunables, ents, assocs, now, issued, written>>

EntityType_try_from(value) ==
    /\ LET res == EntityType_from_u64(value)
       IN  last' = [op |-> "EntityType::try_from", args |-> [value |-> value],
                    res |-> res,
                    as_u64 |-> IF res.kind = "Ok"
                               THEN Some(EntityType_as_u64(res.val))
                               ELSE None]
    /\ UNCHANGED <<tunables, ents, assocs, now, issued, written>>

AssocType_try_from(value) ==
    /\ LET res == AssocType_from_u64(value)
       IN  last' = [op |-> "AssocType::try_from", args |-> [value |-> value],
                    res |-> res,
                    as_u64 |-> IF res.kind = "Ok"
                               THEN Some(AssocType_as_u64(res.val))
                               ELSE None]
    /\ UNCHANGED <<tunables, ents, assocs, now, issued, written>>

\* The system clock is set back a second between two calls: Utc::now() reads
\* the wall clock, which is not monotonic. It is a step of SpecTime.
SetBack ==
    /\ now > 0
    /\ now' = now - 1
    /\ UNCHANGED <<tunables, ents, assocs, last, issued, written>>

\* --------------------------------------------------------- specifications
\* A step made while no worker moves: a call on the TeaSqliteConnection by the
\* thread that owns it, a second passing, or a config variable being set.
Alone(A) == A /\ UNCHANGED shared

\* Spec: the entity operations over every type and data, with the assoc
\* mutations on one key in between.
SpecAssocType == {1}
SpecId1 == {1}
SpecId2 == {2}
SpecAssocData == {<<>>}

Next ==
    \/ Alone(initialize)
    \/ \E ty \in EntityType, data \in Data : Alone(ent_add(ty, data))
    \/ \E id \in EntityId : Alone(ent_get(id))
    \/ \E id \in EntityId, ty \in EntityType, data \in Data : Alone(ent_update(id, ty, data))
    \/ \E id \in EntityId : Alone(ent_delete(id))
    \/ \E ty \in SpecAssocType, id1 \in SpecId1, id2 \in SpecId2, data \in SpecAssocData :
          Alone(assoc_add(ty, id1, id2, data))
    \/ \E ty \in SpecAssocType, id1 \in SpecId1, id2 \in SpecId2 :
          Alone(assoc_delete(ty, id1, id2))
    \/ \E ty \in SpecAssocType, id1 \in SpecId1, id2 \in SpecId2, new_ty \in AssocType :
          Alone(assoc_change_type(ty, id1, id2, new_ty))

Spec == Init /\ [][Next]_vars

\* SpecCascade: the assoc mutations over every type, endpoint and data, with
\* the entity operations on one type and one data.
CascadeEntityType == {1}
CascadeData == {<<>>}
CascadeAssocData == {<<>>, <<104, 0>>}

NextCascade ==
    \/ \E ty \in CascadeEntityType, data \in CascadeData : Alone(ent_add(ty, data))
    \/ \E id \in EntityId : Alone(ent_get(id))
    \/ \E id \in EntityId, ty \in CascadeEntityType, data \in CascadeData :
          Alone(ent_update(id, ty, data))
    \/ \E id \in EntityId : Alone(ent_delete(id))
    \/ \E ty \in AssocType, id1 \in EntityId, id2 \in EntityId, data \in CascadeAssocData :
          Alone(assoc_add(ty, id1, id2, data))
    \/ \E ty \in SpecAssocType, id1 \in SpecId1, id2 \in SpecId2 :
          Alone(assoc_delete(ty, id1, id2))
    \/ \E ty \in SpecAssocType, id1 \in SpecId1, id2 \in SpecId2, new_ty \in AssocType :
          Alone(assoc_change_type(ty, id1, id2, new_ty))

SpecCascade == Init /\ [][NextCascade]_vars

\* SpecAssoc: the assoc mutations over every type and data on the id2 of one
\* id1, the clock, entities added and deleted, and assoc_get of one id2.
AssocId1 == {1}
AssocId2 == {2, 3}

NextAssoc ==
    \/ \E ty \in AssocType, id1 \in AssocId1, id2 \in AssocId2, data \in Data :
          Alone(assoc_add(ty, id1, id2, data))
    \/ \E ty \in AssocType, id1 \in AssocId1, id2 \in AssocId2 :
          Alone(assoc_delete(ty, id1, id2))
    \/ \E ty \in AssocType, id1 \in AssocId1, id2 \in AssocId2, new_ty \in AssocType :
          Alone(assoc_change_type(ty, id1, id2, new_ty))
    \/ \E ty \in AssocType, id1 \in AssocId1, id2 \in AssocId2 :
          Alone(assoc_get(ty, id1, {id2}, None, None))
    \/ \E ty \in CascadeEntityType, data \in CascadeData : Alone(ent_add(ty, data))
    \/ \E id \in AssocId2 : Alone(ent_delete(id))
    \/ Alone(Tick)

SpecAssoc == Init /\ [][NextAssoc]_vars

\* SpecRange: assocs without data of every type from two id1 to every id2,
\* the queries of one type from one id1 under every cursor and limit, and the
\* two config variables set to small values.
RangeId1 == {1, 2}
QueryId1 == {1}
QueryType == {1}
QueryHigh == {MaxTime}
QueryLow == {0}
RangeAssocData == {<<>>}
MaxValues == {0, 1}
DefaultValues == {1}
Limits == {Default, Maximum} \cup {Limit(n) : n \in 0..2}
Afters == {First} \cup {ID(id) : id \in EntityId}

NextRange ==
    \/ \E ty \in AssocType, id1 \in RangeId1, id2 \in EntityId, data \in RangeAssocData :
          Alone(assoc_add(ty, id1, id2, data))
    \/ \E ty \in QueryType, id1 \in QueryId1, id2 \in EntityId :
          Alone(assoc_delete(ty, id1, id2))
    \/ \E ty \in QueryType, id1 \in QueryId1 : Alone(assoc_count(ty, id1))
    \/ \E ty \in QueryType, id1 \in QueryId1, after \in Afters, limit \in Limits :
          Alone(assoc_range(ty, id1, after, limit))
    \/ \E ty \in QueryType, id1 \in QueryId1, high \in QueryHigh, low \in QueryLow,
          limit \in Limits :
          Alone(assoc_time_range(ty, id1, high, low, limit))
    \/ \E value \in MaxValues : Alone(MAX_ASSOCS_PER_PAGE_set(value))
    \/ \E value \in DefaultValues : Alone(DEFAULT_ASSOCS_PER_PAGE_set(value))

SpecRange == Init /\ [][NextRange]_vars

\* SpecLive: one thread owns the connection and makes the paginated calls in
\* their two steps, while the config variables are set by another thread.
LiveOwner == {1}
LiveLimits == {Default, Maximum, Limit(1)}
LiveAfters == {First, ID(1)}
LiveMaxValues == {0, 1, 2}

NextLive ==
    \/ \E ty \in AssocType, id1 \in QueryId1, id2 \in EntityId, data \in RangeAssocData :
          Alone(assoc_add(ty, id1, id2, data))
    \/ \E w \in LiveOwner, ty \in QueryType, id1 \in QueryId1, after \in LiveAfters,
          limit \in LiveLimits :
          assoc_range_enter(w, ty, id1, after, limit)
    \/ \E w \in LiveOwner : assoc_range_return(w)
    \/ \E w \in LiveOwner, ty \in QueryType, id1 \in QueryId1, high \in QueryHigh,
          low \in QueryLow, limit \in LiveLimits :
          assoc_time_range_enter(w, ty, id1, high, low, limit)
    \/ \E w \in LiveOwner : assoc_time_range_return(w)
    \/ \E value \in LiveMaxValues : Alone(MAX_ASSOCS_PER_PAGE_set(value))
    \/ \E value \in DefaultValues : Alone(DEFAULT_ASSOCS_PER_PAGE_set(value))

SpecLive == Init /\ [][NextLive]_vars

\* SpecTime: assocs of the queried type from the queried id1 to three id2, one
\* of another type and one from another id1, added at every second of a clock
\* that moves either way, and the two queries by time under every window.
TimeKeys == {<<1, 1, 1>>, <<1, 1, 2>>, <<1, 1, 3>>, <<2, 1, 1>>, <<1, 2, 1>>}
TimeId2Sets == {{}, {1}, {2, 3}, {1, 2}}
TimeBounds == {None} \cup {Some(t) : t \in Time}
TimeLimits == {Limit(0), Limit(1), Maximum}

NextTime ==
    \/ \E k \in TimeKeys, data \in RangeAssocData :
          Alone(assoc_add(k[1], k[2], k[3], data))
    \/ \E ty \in QueryType, id1 \in QueryId1, id2_set \in TimeId2Sets,
          high \in TimeBounds, low \in TimeBounds :
          Alone(assoc_get(ty, id1, id2_set, high, low))
    \/ \E ty \in QueryType, id1 \in QueryId1, high \in Time, low \in Time,
          limit \in TimeLimits :
          Alone(assoc_time_range(ty, id1, high, low, limit))
    \/ Alone(Tick)
    \/ Alone(SetBack)

SpecTime == Init /\ [][NextTime]_vars

\* SpecSlice: the assocs of SpecTime, and assoc_get on slices that name an id
\* once, twice or not at all, under every window.
Slices == {<<>>, <<1>>, <<2, 2>>, <<1, 2, 1>>, <<3, 1, 3, 3>>}

NextSlice ==
    \/ \E k \in TimeKeys, data \in RangeAssocData :
          Alone(assoc_add(k[1], k[2], k[3], data))
    \/ \E ty \in QueryType, id1 \in QueryId1, id2_set \in Slices,
          high \in TimeBounds, low \in TimeBounds :
          Alone(assoc_get_slice(ty, id1, id2_set, high, low))
    \/ Alone(Tick)

SpecSlice == Init /\ [][NextSlice]_vars

\* ------------------------------------------------------------ pagination
\* A worker that pages assoc_range as tests::assoc_range_pagination does: the
\* first call with First, every next call with the last id2 of the page before
\* in ID. Its record holds the cursor, the id2 it received, in order, and the
\* id2 that had an assoc of its type and id1 at the first call and were not
\* deleted since.
\* AssocRangeAfter::ID(last_id2), of the last record of the page.
Cursor(page) == ID(page[Len(page)].id2)

\* The record of the worker after a page: a failed call and an empty page end
\* the scan.
Paged(rec, res) ==
    IF res.kind # "Ok" THEN [rec EXCEPT !.pc = "failed"]
    ELSE IF res.val = <<>> THEN [rec EXCEPT !.pc = "exhausted"]
    ELSE [rec EXCEPT !.pc = "paging",
                     !.after = Cursor(res.val),
                     !.seen = @ \o [i \in DOMAIN res.val |-> res.val[i].id2]]

\* The first page.
scan_first(w, ty, id1, limit) ==
    /\ workers[w].pc \in {"idle", "exhausted", "failed"}
    /\ assoc_range(ty, id1, First, limit)
    /\ workers' = [workers EXCEPT ![w] =
                      Paged([pc |-> "paging",
                             args |-> [ty |-> ty, id1 |-> id1, limit |-> limit],
                             after |-> First,
                             seen |-> <<>>,
                             stable |-> {a.id2 : a \in assoc_range_rows(assocs, ty, id1, First)}],
                            last'.res)]
    /\ UNCHANGED mutex

\* A next page, after the cursor.
scan_next(w) ==
    /\ workers[w].pc = "paging"
    /\ Len(workers[w].seen) <= MaxId
    /\ assoc_range(workers[w].args.ty, workers[w].args.id1, workers[w].after,
                   workers[w].args.limit)
    /\ workers' = [workers EXCEPT ![w] = Paged(workers[w], last'.res)]
    /\ UNCHANGED mutex

\* assoc_delete by another worker between two pages: the id2 is no longer one
\* that has its assoc throughout the scan.
scan_assoc_delete(ty, id1, id2) ==
    /\ assoc_delete(ty, id1, id2)
    /\ workers' = [w \in Workers |->
                      IF /\ workers[w].pc = "paging"
                         /\ workers[w].args.ty = ty
                         /\ workers[w].args.id1 = id1
                      THEN [workers[w] EXCEPT !.stable = @ \ {id2}]
                      ELSE workers[w]]
    /\ UNCHANGED mutex

\* SpecScan: one worker pages the assocs of type 1 from id 1 under every limit,
\* while assocs of that type and id1, and of another type, are added and
\* deleted between its pages.
ScanOwner == {1}
ScanKeys == {<<1, 1, 1>>, <<1, 1, 2>>, <<1, 1, 3>>, <<2, 1, 2>>}
ScanLimits == {Default, Maximum} \cup {Limit(n) : n \in 0..3}

NextScan ==
    \/ \E k \in ScanKeys, data \in RangeAssocData :
          Alone(assoc_add(k[1], k[2], k[3], data))
    \/ \E k \in ScanKeys : scan_assoc_delete(k[1], k[2], k[3])
    \/ \E w \in ScanOwner, ty \in QueryType, id1 \in QueryId1, limit \in ScanLimits :
          scan_first(w, ty, id1, limit)
    \/ \E w \in ScanOwner : scan_next(w)

SpecScan == Init /\ [][NextScan]_vars

\* SpecTypes: the constructors of the id and type tags on every raw value.
Raw == 0..MaxRaw

NextTypes ==
    \/ \E value \in Raw : Alone(EntityId_try_from(value))
    \/ \E value \in Raw : Alone(EntityType_try_from(value))
    \/ \E value \in Raw : Alone(AssocType_try_from(value))

SpecTypes == Init /\ [][NextTypes]_vars

\* SpecShared: two threads with clones of one SharedTeaConnection, each
\* adding entities, reading them and adding the assoc of one key, over and
\* over.
SharedKey == {<<1, 1, 2>>}
\* The calls of ent_add entered and not yet made.
Pending == {w \in Workers : /\ workers[w].pc \in {"lock", "locked"}
                            /\ workers[w].op = "ent_add"}

NextShared ==
    \/ \E w \in Workers, ty \in CascadeEntityType, data \in CascadeData :
          /\ NextRowid(ents) + Cardinality(Pending) <= MaxId
          /\ call(w, "ent_add", [ty |-> ty, data |-> data])
    \/ \E w \in Workers, id \in EntityId : call(w, "ent_get", [id |-> id])
    \/ \E w \in Workers, k \in SharedKey, data \in CascadeData :
          call(w, "assoc_add", [ty |-> k[1], id1 |-> k[2], id2 |-> k[3], data |-> data])
    \/ \E w \in Workers : lock(w)
    \/ \E w \in Workers : shared_ent_add(w)
    \/ \E w \in Workers : shared_ent_get(w)
    \/ \E w \in Workers : shared_assoc_add(w)
    \/ \E w \in Workers : unlock(w)

SpecShared == Init /\ [][NextShared]_vars

\* SpecDelete: two threads with clones of one SharedTeaConnection that add
\* entities and the assocs between the first two, delete those entities, and
\* read and count.
DeleteKeys == {<<1, 1, 2>>, <<1, 2, 1>>}
DeleteIds == {1, 2}

NextDelete ==
    \/ \E w \in Workers, ty \in CascadeEntityType, data \in CascadeData :
          /\ NextRowid(ents) + Cardinality(Pending) <= MaxId
          /\ call(w, "ent_add", [ty |-> ty, data |-> data])
    \/ \E w \in Workers, k \in DeleteKeys, data \in CascadeData :
          call(w, "assoc_add", [ty |-> k[1], id1 |-> k[2], id2 |-> k[3], data |-> data])
    \/ \E w \in Workers, id \in DeleteIds : call(w, "ent_delete", [id |-> id])
    \/ \E w \in Workers, id \in DeleteIds : call(w, "ent_get", [id |-> id])
    \/ \E w \in Workers, ty \in QueryType, id1 \in QueryId1 :
          call(w, "assoc_count", [ty |-> ty, id1 |-> id1])
    \/ \E w \in Workers : lock(w)
    \/ \E w \in Workers : shared_ent_add(w)
    \/ \E w \in Workers : shared_assoc_add(w)
    \/ \E w \in Workers : shared_ent_delete_assocs(w)
    \/ \E w \in Workers : shared_ent_delete_commit(w)
    \/ \E w \in Workers : shared_ent_get(w)
    \/ \E w \in Workers : shared_assoc_count(w)
    \/ \E w \in Workers : unlock(w)

SpecDelete == Init /\ [][NextDelete]_vars

\* SpecPoison: two threads with clones of one SharedTeaConnection that add
\* entities and an assoc and delete the first entity, any of them panicking
\* inside a call.
PoisonKeys == {<<1, 1, 2>>}
PoisonIds == {1}

NextPoison ==
    \/ \E w \in Workers, ty \in CascadeEntityType, data \in CascadeData :
          /\ NextRowid(ents) + Cardinality(Pending) <= MaxId
          /\ call(w, "ent_add", [ty |-> ty, data |-> data])
    \/ \E w \in Workers, k \in PoisonKeys, data \in CascadeData :
          call(w, "assoc_add", [ty |-> k[1], id1 |-> k[2], id2 |-> k[3], data |-> data])
    \/ \E w \in Workers, id \in PoisonIds : call(w, "ent_delete", [id |-> id])
    \/ \E w \in Workers : lock(w)
    \/ \E w \in Workers : lock_poisoned(w)
    \/ \E w \in Workers : shared_ent_add(w)
    \/ \E w \in Workers : shared_assoc_add(w)
    \/ \E w \in Workers : shared_ent_delete_assocs(w)
    \/ \E w \in Workers : shared_ent_delete_commit(w)
    \/ \E w \in Workers : unlock(w)
    \/ \E w \in Workers : panic(w)

SpecPoison == Init /\ [][NextPoison]_vars

\* SpecPoisonFair: SpecPoison under fair scheduling. A thread that can take
\* the mutex again and again does take it in the end, and a thread that can
\* go on with its call does; a panic is never due.
FairPoison ==
    \A w \in Workers :
        /\ SF_vars(lock(w))
        /\ WF_vars(lock_poisoned(w))
        /\ WF_vars(shared_ent_add(w))
        /\ WF_vars(shared_assoc_add(w))
        /\ WF_vars(shared_ent_delete_assocs(w))
        /\ WF_vars(shared_ent_delete_commit(w))
        /\ WF_vars(unlock(w))

SpecPoisonFair == Init /\ [][NextPoison]_vars /\ FairPoison

\* SpecConfig: the program before its premain registrars have run. Two
\* threads run init on the two configs in any order and again, and the
\* initialized configs are read, set and listed meanwhile.
InitConfig ==
    /\ ents = {}
    /\ assocs = {}
    /\ now = 0
    /\ last = [op |-> "declared", args |-> NoArgs, res |-> NoArgs]
    /\ issued = {}
    /\ written = [id \in EntityId |-> NoEnt]
    /\ MAX_ASSOCS_PER_PAGE = Null
    /\ DEFAULT_ASSOCS_PER_PAGE = Null
    /\ REGISTRY = NoConfig
    /\ statics = [c \in Configs |-> Declared]
    /\ mutex = NoWorker
    /\ workers = [w \in Workers |-> Idle]

ConfigValues == {0, 12}
RonTexts == {to_string(value) : value \in ConfigValues} \cup {<<"t", "e", "s", "t">>, <<>>}

NextConfig ==
    \/ \E w \in Workers, c \in Configs : init_enter(w, c)
    \/ \E w \in Workers, c \in Configs : init_again(w, c)
    \/ \E w \in Workers : init_store(w)
    \/ \E w \in Workers : init_register(w)
    \/ iter
    \/ \E c \in Configs : Config_get(c)
    \/ \E c \in Configs, value \in ConfigValues : Config_set(c, value)
    \/ \E c \in Configs : Config_as_ron(c)
    \/ \E c \in Configs, ron \in RonTexts : Config_set_from_ron(c, ron)

SpecConfig == InitConfig /\ [][NextConfig]_vars

\* SpecTidy: a caller that adds an assoc, between any two ids, only when both
\* are entities that exist, adds and deletes entities as it likes, and
\* deletes and retypes the assoc of one key.
Exists(id) == EntsWithId(ents, id) # {}

NextTidy ==
    \/ \E ty \in CascadeEntityType, data \in CascadeData : Alone(ent_add(ty, data))
    \/ \E id \in EntityId : Alone(ent_delete(id))
    \/ \E ty \in SpecAssocType, id1 \in EntityId, id2 \in EntityId, data \in CascadeData :
          /\ Exists(id1)
          /\ Exists(id2)
          /\ Alone(assoc_add(ty, id1, id2, data))
    \/ \E ty \in SpecAssocType, id1 \in SpecId1, id2 \in SpecId2 :
          Alone(assoc_delete(ty, id1, id2))
    \/ \E ty \in SpecAssocType, id1 \in SpecId1, id2 \in SpecId2, new_ty \in AssocType :
          Alone(assoc_change_type(ty, id1, id2, new_ty))

SpecTidy == Init /\ [][NextTidy]_vars

\* ------------------------------------------------------------- properties
\* The id of the last call, for the entity operations.
LastId == last.args.id
Touches(a, id) == a.id1 = id \/ a.id2 = id
\* This step is a call of op: every call writes `last`.
Called(op) == last' # last /\ last'.op = op

\* C1: when ent_delete(id) returns Ok, the assocs table holds no row whose
\* id1 or id2 is id, of any type.
C1_Cascade ==
    (last.op = "ent_delete" /\ last.res.kind = "Ok")
        => \A a \in assocs : ~Touches(a, LastId)

\* An ent_delete that returned Ok after removing as many assocs as the table
\* holds at most.
C1_Witness ==
    /\ last.op = "ent_delete"
    /\ last.res.kind = "Ok"
    /\ last.nr_assocs = MaxAssocs

\* C2: ent_delete(k) leaves every assoc with both endpoints other than k and
\* every entity other than k as they were, and adds none.
C2_Frame ==
    [][Called("ent_delete") =>
          LET k == last'.args.id
          IN  /\ {a \in assocs' : ~Touches(a, k)} = {a \in assocs : ~Touches(a, k)}
              /\ {e \in ents' : e.id # k} = {e \in ents : e.id # k}]_vars

\* An ent_delete that returned Ok, removed an assoc, and left an assoc with
\* data and another entity behind.
C2_Witness ==
    /\ last.op = "ent_delete"
    /\ last.res.kind = "Ok"
    /\ last.nr_assocs >= 1
    /\ \E a \in assocs : a.data # <<>>
    /\ ents # {}

\* C3: the id an ent_add returns is none of the ids returned by the ent_add
\* calls before it.
C3_NeverReused ==
    [][(Called("ent_add") /\ last'.res.kind = "Ok")
          => last'.res.val \notin issued]_vars

\* C4: ent_add returns a non-zero id, and an ent_get of an entity that was
\* added and neither updated nor deleted since returns the type and data
\* given to ent_add.
C4_RoundTrip ==
    /\ last.op = "ent_add" => (last.res.kind = "Ok" /\ last.res.val # 0)
    /\ (last.op = "ent_get" /\ written[LastId].live /\ ~written[LastId].updated)
          => last.res = Ok([ty |-> written[LastId].ty, data |-> written[LastId].data])

\* An ent_get of a never updated entity with empty data, while another entity
\* has been updated.
C4_Witness ==
    /\ last.op = "ent_get"
    /\ written[LastId].live
    /\ ~written[LastId].updated
    /\ last.res = Ok([ty |-> 2, data |-> <<>>])
    /\ \E id \in EntityId : written[id].live /\ written[id].updated

\* C5 as stated: ent_update on an existing entity returns the type and the
\* data the row held before the update.
C5_ReturnsBefore ==
    [][(Called("ent_update") /\ EntsWithId(ents, last'.args.id) # {}) =>
          LET r == TheRow(EntsWithId(ents, last'.args.id))
          IN  last'.res = Ok([ty |-> r.type, data |-> r.data])]_vars

\* C5 as amended: ent_update on an existing entity returns the type the row
\* held before the update and the data given to this call.
C5_ReturnsNew ==
    [][(Called("ent_update") /\ EntsWithId(ents, last'.args.id) # {}) =>
          LET r == TheRow(EntsWithId(ents, last'.args.id))
          IN  last'.res = Ok([ty |-> r.type, data |-> last'.args.data])]_vars

\* An ent_update that returned Ok for a call whose ty is not the entity's.
C5_Witness ==
    /\ last.op = "ent_update"
    /\ last.res.kind = "Ok"
    /\ last.args.ty # last.res.val.ty
    /\ last.args.data = <<104, 0>>

\* C6: every entity keeps the type given to ent_add, and after an ent_update
\* that returned Ok, whatever its ty, ent_get returns that type with the new
\* data.
C6_TypePreserved ==
    /\ \A id \in EntityId :
          written[id].live =>
             /\ ent_get_result(ents, id).kind = "Ok"
             /\ ent_get_result(ents, id).val.ty = written[id].ty
    /\ (last.op = "ent_update" /\ last.res.kind = "Ok")
          => ent_get_result(ents, LastId) =
                Ok([ty |-> written[LastId].ty, data |-> last.args.data])

\* An ent_update that returned Ok with a ty other than the one given to
\* ent_add.
C6_Witness ==
    /\ last.op = "ent_update"
    /\ last.res.kind = "Ok"
    /\ last.args.ty # written[LastId].ty

\* C7: ent_delete on an existing entity returns the type given to ent_add
\* and the data written last, and ent_get on the id then is EntNotFound.
C7_DeleteReturns ==
    [][(Called("ent_delete") /\ EntsWithId(ents, last'.args.id) # {}) =>
          LET id == last'.args.id
          IN  /\ last'.res = Ok([ty |-> written[id].ty, data |-> written[id].data])
              /\ ent_get_result(ents', id) = EntNotFound(id)]_vars

\* An ent_delete that returned Ok with the second type and non-empty data.
C7_Witness ==
    /\ last.op = "ent_delete"
    /\ last.res.kind = "Ok"
    /\ last.res.val = [ty |-> 2, data |-> <<104, 0>>]
    /\ ~written[LastId].live

\* C8: ent_delete on an id without entity returns EntNotFound(id), removes
\* the assocs at id and nothing else.
C8_NotFoundCommits ==
    [][(Called("ent_delete") /\ EntsWithId(ents, last'.args.id) = {}) =>
          LET id == last'.args.id
          IN  /\ last'.res = EntNotFound(id)
              /\ assocs' = {a \in assocs : ~Touches(a, id)}
              /\ ents' = ents]_vars

\* An ent_delete that returned EntNotFound after removing an assoc, with an
\* entity and another assoc left.
C8_Witness ==
    /\ last.op = "ent_delete"
    /\ last.res.kind = "EntNotFound"
    /\ last.nr_assocs >= 1
    /\ assocs # {}
    /\ ents # {}

\* C9: ent_get and ent_update on an id without entity return EntNotFound(id)
\* and change neither table.
C9_NotFoundNoChange ==
    [][((Called("ent_get") \/ Called("ent_update")) /\ EntsWithId(ents, last'.args.id) = {}) =>
          /\ last'.res = EntNotFound(last'.args.id)
          /\ ents' = ents
          /\ assocs' = assocs]_vars

\* An ent_update that returned EntNotFound on a store with an entity and an
\* assoc.
C9_Witness ==
    /\ last.op = "ent_update"
    /\ last.res = EntNotFound(LastId)
    /\ ents # {}
    /\ assocs # {}

\* C10: assoc_add on a key that has a row returns AssocAlreadyExists with
\* that key.
C10_AlreadyExists ==
    [][(Called("assoc_add")
        /\ AssocsWithKey(assocs, last'.args.ty, last'.args.id1, last'.args.id2) # {})
          => last'.res = AssocAlreadyExists(last'.args.ty, last'.args.id1, last'.args.id2)]_vars

\* C11: whatever assoc_add, assoc_change_type, assoc_delete and ent_delete
\* calls were made, no two rows of assocs have the same (type, id1, id2).
C11_KeyUnique ==
    \A a, b \in assocs :
        (a.type = b.type /\ a.id1 = b.id1 /\ a.id2 = b.id2) => a = b

\* An assoc_change_type refused on the key of another row, the two rows being
\* of different seconds.
C11_Witness ==
    /\ last.op = "assoc_change_type"
    /\ last.res = StorageError
    /\ \E a, b \in assocs :
          /\ a.id1 = b.id1 /\ a.id2 = b.id2
          /\ a.type # b.type
          /\ a.last_change_unixtime # b.last_change_unixtime

\* The record is one of the elements of a query result.
Returns(res, rec) == res.kind = "Ok" /\ \E i \in DOMAIN res.val : res.val[i] = rec

\* C12: assoc_add on a free key of which id1, id2 or both have no row in ents
\* returns Ok, and the assoc is then in the result of assoc_get on its id2,
\* is counted by assoc_count, and is in the result of assoc_range from First.
C12_EndpointsNotRequired ==
    [][(/\ Called("assoc_add")
        /\ AssocsWithKey(assocs, last'.args.ty, last'.args.id1, last'.args.id2) = {}
        /\ \/ EntsWithId(ents, last'.args.id1) = {}
           \/ EntsWithId(ents, last'.args.id2) = {})
       => LET ty == last'.args.ty
              id1 == last'.args.id1
              id2 == last'.args.id2
              rec == AssocStorage(ty, id1, id2, now, last'.args.data)
          IN  /\ last'.res = Ok(NoArgs)
              /\ \A res \in assoc_get_results(assocs', ty, id1, {id2}, None, None, now') :
                    Returns(res, rec)
              /\ assoc_count_result(assocs', ty, id1).val
                    = assoc_count_result(assocs, ty, id1).val + 1
              /\ \A res \in assoc_range_results(assocs', ty, id1, First, Maximum,
                                                MAX_ASSOCS_PER_PAGE', DEFAULT_ASSOCS_PER_PAGE') :
                    Returns(res, rec)]_vars

\* An assoc_add that returned Ok from an id whose entity was deleted to an id
\* no ent_add has returned, while another entity exists.
C12_Witness ==
    /\ last.op = "assoc_add"
    /\ last.res = Ok(NoArgs)
    /\ last.args.id1 \in issued
    /\ ~written[last.args.id1].live
    /\ EntsWithId(ents, last.args.id1) = {}
    /\ last.args.id2 \notin issued
    /\ ents # {}

\* C13: assoc_change_type(old, id1, id2, new) on a key that has a row, the
\* key (new, id1, id2) having none, returns a record of type new with the
\* data of the row; assoc_get(new, id1, {id2}) then returns that record alone,
\* assoc_get(old, id1, {id2}) returns nothing, and every other row is as it
\* was.
C13_ChangeType ==
    [][(/\ Called("assoc_change_type")
        /\ AssocsWithKey(assocs, last'.args.ty, last'.args.id1, last'.args.id2) # {}
        /\ AssocsWithKey(assocs, last'.args.new_ty, last'.args.id1, last'.args.id2) = {})
       => LET old == last'.args.ty
              new == last'.args.new_ty
              id1 == last'.args.id1
              id2 == last'.args.id2
              row == TheRow(AssocsWithKey(assocs, old, id1, id2))
          IN  /\ last'.res.kind = "Ok"
              /\ last'.res.val.ty = new
              /\ last'.res.val.data = row.data
              /\ assoc_get_results(assocs', new, id1, {id2}, None, None, now')
                    = {Ok(<<last'.res.val>>)}
              /\ assoc_get_results(assocs', old, id1, {id2}, None, None, now')
                    = {Ok(<<>>)}
              /\ assocs' \ AssocsWithKey(assocs', new, id1, id2) = assocs \ {row}]_vars

\* An assoc_change_type that returned Ok in a later second than the one of
\* the assoc_add, for an assoc with data, beside another assoc.
C13_Witness ==
    /\ last.op = "assoc_change_type"
    /\ last.res.kind = "Ok"
    /\ last.res.val.ty # last.args.ty
    /\ last.res.val.data # <<>>
    /\ last.res.val.last_change > 0
    /\ Cardinality(assocs) = MaxAssocs

\* C14: assoc_change_type(ty, id1, id2, new_ty) with new_ty other than ty,
\* when (ty, id1, id2) and (new_ty, id1, id2) both have a row, returns
\* StorageError and leaves the table as it was.
C14_Conflict ==
    [][(/\ Called("assoc_change_type")
        /\ last'.args.new_ty # last'.args.ty
        /\ AssocsWithKey(assocs, last'.args.ty, last'.args.id1, last'.args.id2) # {}
        /\ AssocsWithKey(assocs, last'.args.new_ty, last'.args.id1, last'.args.id2) # {})
       => /\ last'.res = StorageError
          /\ assocs' = assocs]_vars

\* An assoc_change_type that returned StorageError in a later second than
\* the ones of its two rows, which differ in data.
C14_Witness ==
    /\ last.op = "assoc_change_type"
    /\ last.res = StorageError
    /\ now > 0
    /\ \E a, b \in assocs :
          /\ a.type = last.args.ty /\ b.type = last.args.new_ty
          /\ a.id1 = last.args.id1 /\ b.id1 = last.args.id1
          /\ a.id2 = last.args.id2 /\ b.id2 = last.args.id2
          /\ a.data # b.data
          /\ a.last_change_unixtime < now /\ b.last_change_unixtime < now

\* C15: assoc_delete and assoc_change_type on a key (ty, id1, id2) without
\* row return AssocNotFound(ty, id1, id2) and leave both tables as they were,
\* also when a row of another type joins the same id1 and id2.
C15_AssocNotFound ==
    [][(/\ Called("assoc_delete") \/ Called("assoc_change_type")
        /\ AssocsWithKey(assocs, last'.args.ty, last'.args.id1, last'.args.id2) = {})
       => /\ last'.res = AssocNotFound(last'.args.ty, last'.args.id1, last'.args.id2)
          /\ assocs' = assocs
          /\ ents' = ents]_vars

\* An assoc_change_type that returned AssocNotFound while the key of the new
\* type has a row.
C15_Witness ==
    /\ last.op = "assoc_change_type"
    /\ last.res.kind = "AssocNotFound"
    /\ last.args.new_ty # last.args.ty
    /\ AssocsWithKey(assocs, last.args.new_ty, last.args.id1, last.args.id2) # {}

\* C16: assoc_delete(ty, id1, id2) on a key that has a row returns the record
\* of ty, id1, id2 with the last_change and data of the row, removes that row
\* and no other, so that assoc_count(ty, id1) is one less, and leaves ents as
\* it was.
C16_DeleteReturns ==
    [][(/\ Called("assoc_delete")
        /\ AssocsWithKey(assocs, last'.args.ty, last'.args.id1, last'.args.id2) # {})
       => LET ty == last'.args.ty
              id1 == last'.args.id1
              id2 == last'.args.id2
              row == TheRow(AssocsWithKey(assocs, ty, id1, id2))
          IN  /\ last'.res = Ok(AssocStorage(ty, id1, id2,
                                              row.last_change_unixtime, row.data))
              /\ assocs' = assocs \ {row}
              /\ assoc_count_result(assocs', ty, id1).val
                    = assoc_count_result(assocs, ty, id1).val - 1
              /\ ents' = ents]_vars

\* An assoc_delete that returned, in a later second, a record with data and
\* the second of its assoc_add, beside another assoc from the same id1 and
\* an entity.
C16_Witness ==
    /\ last.op = "assoc_delete"
    /\ last.res.kind = "Ok"
    /\ last.res.val.data # <<>>
    /\ last.res.val.last_change < now
    /\ \E a \in assocs : a.id1 = last.args.id1
    /\ ents # {}

\* The limit is accepted and asks for at least one row.
Fetches(limit) ==
    LET lim == ResolveLimit(limit, MAX_ASSOCS_PER_PAGE, DEFAULT_ASSOCS_PER_PAGE)
    IN  lim >= 1 /\ ~PageTooLarge(lim, MAX_ASSOCS_PER_PAGE)

C18_RangePage ==
    [][(/\ Called("assoc_range")
        /\ ~PageTooLarge(ResolveLimit(last'.args.limit, MAX_ASSOCS_PER_PAGE,
                                      DEFAULT_ASSOCS_PER_PAGE),
                         MAX_ASSOCS_PER_PAGE))
       => LET ty == last'.args.ty
              id1 == last'.args.id1
              after == last'.args.after
              L == ResolveLimit(last'.args.limit, MAX_ASSOCS_PER_PAGE,
                                DEFAULT_ASSOCS_PER_PAGE)
              Q == {a \in assocs :
                      /\ a.type = ty /\ a.id1 = id1
                      /\ (after.kind = "ID" => a.id2 > after.id)}
              page == last'.res.val
          IN  /\ last'.res.kind = "Ok"
              /\ Len(page) = Min(L, Cardinality(Q))
              /\ \A i, j \in DOMAIN page : i < j => page[i].id2 < page[j].id2
              /\ \A i \in DOMAIN page :
                    \E a \in Q : page[i] = AssocStorage(ty, id1, a.id2,
                                                        a.last_change_unixtime, a.data)
              /\ \A a \in Q, i \in DOMAIN page :
                    a.id2 < page[i].id2 => \E j \in DOMAIN page : page[j].id2 = a.id2]_vars

\* An assoc_range after an id with Limit(1) that returned one of two rows
\* above the cursor.
C18_Witness ==
    /\ last.op = "assoc_range"
    /\ last.args.after.kind = "ID"
    /\ last.args.limit = Limit(1)
    /\ last.res.kind = "Ok"
    /\ Len(last.res.val) = 1
    /\ Cardinality(assoc_range_rows(assocs, last.args.ty, last.args.id1,
                                    last.args.after)) = 2

\* assoc_range(ty, id1, ...) chained from First with Limit(1) gives rows in
\* strictly ascending id2, the same rows as one call with First and Maximum.
PagesAreMaximum(ty, id1) ==
    \A all \in Paginate(assocs, ty, id1, First, Limit(1),
                        MAX_ASSOCS_PER_PAGE, DEFAULT_ASSOCS_PER_PAGE),
       one \in assoc_range_results(assocs, ty, id1, First, Maximum,
                                   MAX_ASSOCS_PER_PAGE, DEFAULT_ASSOCS_PER_PAGE) :
        /\ all.kind = "Ok"
        /\ \A i, j \in DOMAIN all.val : i < j => all.val[i].id2 < all.val[j].id2
        /\ all = one

\* C19 as stated: in every state, for a type and an id1 with at most
\* MAX_ASSOCS_PER_PAGE assocs, the pages of Limit(1) chained from First to
\* the empty page are in strictly ascending id2 and equal the result of
\* assoc_range with First and Maximum.
C19_PagesAreMaximum ==
    \A ty \in AssocType, id1 \in EntityId :
        assoc_count_result(assocs, ty, id1).val <= MAX_ASSOCS_PER_PAGE
            => PagesAreMaximum(ty, id1)

\* C19 as amended: the same when MAX_ASSOCS_PER_PAGE is at least 1; when it
\* is 0 the first call with Limit(1) fails with AssocRangePageTooLarge.
C19_PagesAreMaximumFromOne ==
    \A ty \in AssocType, id1 \in EntityId :
        assoc_count_result(assocs, ty, id1).val <= MAX_ASSOCS_PER_PAGE
            => IF MAX_ASSOCS_PER_PAGE >= 1
               THEN PagesAreMaximum(ty, id1)
               ELSE Paginate(assocs, ty, id1, First, Limit(1),
                             MAX_ASSOCS_PER_PAGE, DEFAULT_ASSOCS_PER_PAGE)
                       = {AssocRangePageTooLarge(1, MAX_ASSOCS_PER_PAGE)}

\* The second call of a pagination with Limit(1): the cursor is the id2 of a
\* row, the page holds the other row, and both fit MAX_ASSOCS_PER_PAGE.
C19_Witness ==
    /\ last.op = "assoc_range"
    /\ last.args.limit = Limit(1)
    /\ last.args.after.kind = "ID"
    /\ AssocsWithKey(assocs, last.args.ty, last.args.id1, last.args.after.id) # {}
    /\ last.res.kind = "Ok"
    /\ Len(last.res.val) = 1
    /\ assoc_count_result(assocs, last.args.ty, last.args.id1) = Ok(2)
    /\ MAX_ASSOCS_PER_PAGE >= 2

\* C20: assoc_range and assoc_time_range called with Limit(n) return
\* AssocRangePageTooLarge(n, MAX_ASSOCS_PER_PAGE) when n is above the value
\* MAX_ASSOCS_PER_PAGE has at the call, do not return that error otherwise,
\* n equal to it included, and change neither the tables nor the config
\* variables.
C20_PageTooLarge ==
    [][(/\ Called("assoc_range") \/ Called("assoc_time_range")
        /\ last'.args.limit.kind = "Limit")
       => LET n == last'.args.limit.n
          IN  /\ n > MAX_ASSOCS_PER_PAGE
                    => last'.res = AssocRangePageTooLarge(n, MAX_ASSOCS_PER_PAGE)
              /\ n <= MAX_ASSOCS_PER_PAGE => last'.res.kind # "AssocRangePageTooLarge"
              /\ assocs' = assocs
              /\ ents' = ents
              /\ tunables' = tunables]_vars

\* An assoc_time_range refused for a limit one above the maximum, on a table
\* that has a row the query selects.
C20_Witness ==
    /\ last.op = "assoc_time_range"
    /\ last.res.kind = "AssocRangePageTooLarge"
    /\ last.res.requested_limit = last.res.maximum_limit + 1
    /\ assoc_time_range_rows(assocs, last.args.ty, last.args.id1,
                             last.args.high, last.args.low) # {}

\* C21: assoc_range and assoc_time_range called with Maximum never return
\* AssocRangePageTooLarge, whatever the config variables hold and whenever
\* they are set.
C21_MaximumAccepted ==
    [][(/\ Called("assoc_range") \/ Called("assoc_time_range")
        /\ last'.args.limit = Maximum)
       => last'.res.kind # "AssocRangePageTooLarge"]_vars

\* C22: assoc_range and assoc_time_range called with Default return
\* AssocRangePageTooLarge(DEFAULT_ASSOCS_PER_PAGE, MAX_ASSOCS_PER_PAGE) when
\* DEFAULT_ASSOCS_PER_PAGE is above MAX_ASSOCS_PER_PAGE at the call, and do
\* not return that error when it is not.
C22_DefaultAboveMaximum ==
    [][(/\ Called("assoc_range") \/ Called("assoc_time_range")
        /\ last'.args.limit = Default)
       => /\ DEFAULT_ASSOCS_PER_PAGE > MAX_ASSOCS_PER_PAGE
                => last'.res = AssocRangePageTooLarge(DEFAULT_ASSOCS_PER_PAGE,
                                                      MAX_ASSOCS_PER_PAGE)
          /\ DEFAULT_ASSOCS_PER_PAGE <= MAX_ASSOCS_PER_PAGE
                => last'.res.kind # "AssocRangePageTooLarge"]_vars

\* An assoc_range with Default refused after both config variables were set,
\* on a table that has a row the query selects.
C22_Witness ==
    /\ last.op = "assoc_range"
    /\ last.args.limit = Default
    /\ last.res.kind = "AssocRangePageTooLarge"
    /\ last.res.requested_limit # DEFAULT_ASSOCS_PER_PAGE_default
    /\ last.res.maximum_limit # MAX_ASSOCS_PER_PAGE_default
    /\ assoc_range_rows(assocs, last.args.ty, last.args.id1, last.args.after) # {}

\* The stored assocs of type ty at id1 changed last in [low, high], as records.
InWindow(ty, id1, high, low) ==
    {AssocStorage(a.type, a.id1, a.id2, a.last_change_unixtime, a.data) :
        a \in {r \in assocs : /\ r.type = ty
                              /\ r.id1 = id1
                              /\ low <= r.last_change_unixtime
                              /\ r.last_change_unixtime <= high}}

\* The page size a limit stands for.
PageSize(limit) ==
    CASE limit.kind = "Default" -> DEFAULT_ASSOCS_PER_PAGE
      [] limit.kind = "Limit" -> limit.n
      [] limit.kind = "Maximum" -> MAX_ASSOCS_PER_PAGE

\* C23: an accepted assoc_time_range(ty, id1, high, low, limit) returns only
\* stored assocs of type ty at id1 with low <= last_change <= high, none
\* twice, in non-increasing order of last_change, at most the page size of
\* them; when more than the page size qualify it returns that many, and none
\* left out is more recent than one returned.
C23_TimeRange ==
    [][(Called("assoc_time_range") /\ last'.res.kind # "AssocRangePageTooLarge") =>
          LET q == InWindow(last'.args.ty, last'.args.id1, last'.args.high, last'.args.low)
              L == PageSize(last'.args.limit)
              v == last'.res.val
          IN  /\ last'.res.kind = "Ok"
              /\ \A i \in DOMAIN v : v[i] \in q
              /\ \A i, j \in DOMAIN v : i < j =>
                    /\ v[i] # v[j]
                    /\ v[i].last_change >= v[j].last_change
              /\ Len(v) <= L
              /\ Cardinality(q) > L =>
                    /\ Len(v) = L
                    /\ \A r \in q : (\A i \in DOMAIN v : v[i] # r) =>
                          \A i \in DOMAIN v : v[i].last_change >= r.last_change]_vars

\* An assoc_time_range with Limit(1) whose window holds an older and a newer
\* assoc, and that returned the newer one.
C23_Witness ==
    /\ last.op = "assoc_time_range"
    /\ last.args.limit = Limit(1)
    /\ last.res.kind = "Ok"
    /\ Len(last.res.val) = 1
    /\ \E r \in InWindow(last.args.ty, last.args.id1, last.args.high, last.args.low) :
          r.last_change < last.res.val[1].last_change

\* The epoch, as a second of the clock.
Epoch == 0

\* C24: assoc_get(ty, id1, id2_set, high, low) returns Ok with exactly the
\* stored assocs of type ty at id1 whose id2 is in id2_set and whose
\* last_change is in [low, high], each once, where an absent high is the
\* current time and an absent low the epoch; when none matches, an empty
\* id2_set included, the result is Ok of the empty list.
C24_Get ==
    [][Called("assoc_get") =>
          LET h == IF last'.args.high.some THEN last'.args.high.val ELSE now
              l == IF last'.args.low.some THEN last'.args.low.val ELSE Epoch
              q == {r \in InWindow(last'.args.ty, last'.args.id1, h, l) :
                       r.id2 \in last'.args.id2_set}
              v == last'.res.val
          IN  /\ last'.res.kind = "Ok"
              /\ {v[i] : i \in DOMAIN v} = q
              /\ Len(v) = Cardinality(q)
              /\ q = {} => last'.res = Ok(<<>>)]_vars

\* An assoc_get without high and low that returned one assoc and left out
\* another of its type, id1 and id2_set, changed last after the current time.
C24_Witness ==
    /\ last.op = "assoc_get"
    /\ last.args.high = None
    /\ last.args.low = None
    /\ last.res.kind = "Ok"
    /\ Len(last.res.val) = 1
    /\ \E a \in assocs : /\ a.type = last.args.ty
                         /\ a.id1 = last.args.id1
                         /\ a.id2 \in last.args.id2_set
                         /\ a.last_change_unixtime > now

\* Two rows of the assocs table with the same primary key.
SameKey(a, b) == a.type = b.type /\ a.id1 = b.id1 /\ a.id2 = b.id2

\* C25: under a clock that does not go back, assoc_add stores the current
\* second as last_change, a successful assoc_change_type stores it in the row
\* it rewrites and returns it in its record, and no other step changes the
\* last_change of a row that stays: it never decreases, and it differs after
\* a step only for the row a successful assoc_change_type rewrote. An
\* assoc_get(ty, id1, {id2}, None, None) that follows a successful
\* assoc_add(ty, id1, id2, d) returns one record, with that stored
\* last_change, which is not after the time of the read.
C25_LastChange ==
    [][/\ (Called("assoc_add") /\ last'.res.kind = "Ok") =>
             \E a \in AssocsWithKey(assocs', last'.args.ty, last'.args.id1, last'.args.id2) :
                a.last_change_unixtime = now
       /\ (Called("assoc_change_type") /\ last'.res.kind = "Ok") =>
             /\ last'.res.val.last_change = now
             /\ \E a \in AssocsWithKey(assocs', last'.args.new_ty,
                                       last'.args.id1, last'.args.id2) :
                   a.last_change_unixtime = now
       /\ \A a \in assocs, b \in assocs' :
             SameKey(a, b) =>
                /\ b.last_change_unixtime >= a.last_change_unixtime
                /\ b.last_change_unixtime # a.last_change_unixtime =>
                      /\ Called("assoc_change_type")
                      /\ last'.res.kind = "Ok"
                      /\ b.type = last'.args.new_ty
                      /\ b.id1 = last'.args.id1
                      /\ b.id2 = last'.args.id2
       /\ (/\ last.op = "assoc_add"
           /\ last.res.kind = "Ok"
           /\ Called("assoc_get")
           /\ last'.args = [ty |-> last.args.ty, id1 |-> last.args.id1,
                            id2_set |-> {last.args.id2}, high |-> None, low |-> None]) =>
             /\ last'.res.kind = "Ok"
             /\ Len(last'.res.val) = 1
             /\ \E a \in AssocsWithKey(assocs, last.args.ty, last.args.id1, last.args.id2) :
                   last'.res.val[1].last_change = a.last_change_unixtime
             /\ last'.res.val[1].last_change <= now']_vars

\* An assoc_change_type that returned a record of the last second of the
\* clock for an assoc with data, beside an assoc last changed earlier.
C25_Witness ==
    /\ last.op = "assoc_change_type"
    /\ last.res.kind = "Ok"
    /\ last.res.val.last_change = MaxTime
    /\ last.res.val.data # <<>>
    /\ \E a \in assocs : a.last_change_unixtime < MaxTime

\* C26: initialize on a store that holds entities and assocs returns Ok and
\* leaves both tables as they were, and an ent_add that follows it returns an
\* id that no entity of the store has.
C26_InitializeIdempotent ==
    [][/\ Called("initialize") =>
             /\ last'.res.kind = "Ok"
             /\ ents' = ents
             /\ assocs' = assocs
       /\ (last.op = "initialize" /\ Called("ent_add")) =>
             /\ last'.res.kind = "Ok"
             /\ last'.res.val \notin {e.id : e \in ents}]_vars

\* An initialize that returned Ok on a store that holds two entities, one
\* with data, and an assoc.
C26_Witness ==
    /\ last.op = "initialize"
    /\ last.res.kind = "Ok"
    /\ Cardinality(ents) = 2
    /\ \E e \in ents : e.data # <<>>
    /\ assocs # {}

\* The calls of the constructors.
Constructors == {"EntityId::try_from", "EntityType::try_from", "AssocType::try_from"}

\* C27: for EntityId, EntityType and AssocType, the constructor fails exactly
\* when the raw value is 0, and on every other value it returns Ok of a value
\* whose as_u64 is the raw value, which is not 0.
C27_ZeroOnly ==
    last.op \in Constructors =>
        /\ last.res.kind # "Ok" <=> last.args.value = 0
        /\ last.args.value # 0 =>
              /\ last.as_u64 = Some(last.args.value)
              /\ last.as_u64.val # 0

\* An AssocType built from the largest raw value and read back.
C27_Witness ==
    /\ last.op = "AssocType::try_from"
    /\ last.args.value = MaxRaw
    /\ last.res.kind = "Ok"
    /\ last.as_u64 = Some(MaxRaw)

\* C28: from zero, EntityId fails with ZeroIsNotAValidID, and EntityType and
\* AssocType fail with ZeroIsNotAValidType.
C28_DedicatedError ==
    (last.op \in Constructors /\ last.args.value = 0) =>
        /\ last.op = "EntityId::try_from" => last.res = ZeroIsNotAValidID
        /\ last.op = "EntityType::try_from" => last.res = ZeroIsNotAValidType
        /\ last.op = "AssocType::try_from" => last.res = ZeroIsNotAValidType

\* C29: every row of ents has a non-zero id and a non-zero type, every row of
\* assocs a non-zero type, id1 and id2, and ent_add never returns
\* ZeroIsNotAValidID: the id it returns, the first one on an empty table
\* included, is not zero.
C29_NonZero ==
    /\ \A e \in ents : e.id # 0 /\ e.type # 0
    /\ \A a \in assocs : a.type # 0 /\ a.id1 # 0 /\ a.id2 # 0
    /\ last.op = "ent_add" =>
          /\ last.res.kind # "ZeroIsNotAValidID"
          /\ last.res.kind = "Ok" => last.res.val # 0

\* The first ent_add on an empty ents table, beside an assoc: it returned 1
\* and the row is the only one.
C29_Witness ==
    /\ last.op = "ent_add"
    /\ last.res = Ok(1)
    /\ Cardinality(ents) = 1
    /\ issued = {1}
    /\ assocs # {}

\* The worker is inside the connection: it holds the guard.
Inside(w) == workers[w].pc \in {"locked", "done"}
\* The worker has the result of its call.
Has(w, op) == workers[w].pc \in {"done", "returned"} /\ workers[w].op = op

\* C30: of the workers calling through clones of one SharedTeaConnection at
\* most one is inside the connection, and it is the holder of the mutex; the
\* store and the record of the last call change only in a step of the worker
\* inside, which is one whole call of the connection on the one store, so the
\* calls take effect one after the other. A result a worker holds while inside
\* is the one the store gives: an ent_get sees the entities whoever added
\* them. Two ent_add of two workers return distinct ids; of two assoc_add of
\* two workers on the same key at most one returns Ok, the one made on the
\* free key returns Ok, and the assoc is stored once.
C30_Serialized ==
    [][/\ \A w, u \in Workers : (Inside(w) /\ Inside(u)) => w = u
       /\ \A w \in Workers : Inside(w) => mutex = w
       /\ <<ents, assocs, last>> # <<ents', assocs', last'>> =>
             \E w \in Workers : /\ mutex = w
                                /\ workers[w].pc = "locked"
                                /\ workers'[w] = Done(w, last'.res)
                                /\ last'.op = workers[w].op
                                /\ last'.args = workers[w].args
                                /\ \A u \in Workers \ {w} : workers'[u] = workers[u]
       /\ \A w \in Workers :
             (workers[w].pc = "done" /\ workers[w].op = "ent_get") =>
                workers[w].res = ent_get_result(ents, workers[w].args.id)
       /\ \A w, u \in Workers :
             (w # u /\ Has(w, "ent_add") /\ Has(u, "ent_add")) =>
                /\ workers[w].res.kind = "Ok"
                /\ workers[u].res.kind = "Ok"
                /\ workers[w].res.val # workers[u].res.val
       /\ \A w, u \in Workers :
             (w # u /\ Has(w, "assoc_add") /\ Has(u, "assoc_add")
                    /\ workers[w].args.ty = workers[u].args.ty
                    /\ workers[w].args.id1 = workers[u].args.id1
                    /\ workers[w].args.id2 = workers[u].args.id2) =>
                ~(workers[w].res.kind = "Ok" /\ workers[u].res.kind = "Ok")
       /\ \A w \in Workers :
             (workers[w].pc = "locked" /\ workers'[w].pc = "done"
                 /\ workers[w].op = "assoc_add") =>
                LET a == workers[w].args
                IN  /\ workers'[w].res.kind = "Ok"
                          <=> AssocsWithKey(assocs, a.ty, a.id1, a.id2) = {}
                    /\ Cardinality(AssocsWithKey(assocs', a.ty, a.id1, a.id2)) = 1]_vars

\* Two workers that entered assoc_add on the same key while neither had made
\* its call: one waits for the mutex, the other is inside and got Ok.
C30_Witness ==
    /\ workers[1].pc = "lock"
    /\ workers[1].op = "assoc_add"
    /\ workers[2].pc = "done"
    /\ workers[2].op = "assoc_add"
    /\ workers[2].args = workers[1].args
    /\ workers[2].res.kind = "Ok"
    /\ mutex = 2
    /\ ents # {}

\* The worker is between the two statements of ent_delete.
MidDelete(w) == workers[w].pc = "txn"
\* This step is the call of the connection inside made for worker u.
Executes(u) == workers[u].pc = "locked" /\ workers'[u].pc \in {"done", "txn"}

\* C31: while a worker is between the cascade and the removal of the row of
\* its ent_delete, no call of another worker through the wrapper runs on the
\* connection, so none reads the store with the assocs of the entity removed
\* and the entity present; the cascade removes the assocs of the entity in
\* one statement, and the tables after the commit are those the whole
\* ent_delete gives on the tables before it.
C31_DeleteAtomic ==
    [][/\ \A u \in Workers : Executes(u) => \A w \in Workers \ {u} : ~MidDelete(w)
       /\ \A w \in Workers : MidDelete(w) => mutex = w
       /\ \A w \in Workers :
             (workers[w].pc = "locked" /\ workers'[w].pc = "txn") =>
                \A a \in assocs : a \in assocs' <=> ~Touches(a, workers[w].args.id)
       /\ \A w \in Workers :
             (MidDelete(w) /\ workers'[w].pc = "done") =>
                LET id == workers[w].args.id
                IN  /\ ents' = (IF ent_delete_aborts(ents, id) THEN ents
                                ELSE ent_delete_rows(ents, id))
                    /\ assocs' = (IF ent_delete_aborts(ents, id) THEN workers[w].before
                                  ELSE ent_delete_assocs(workers[w].before, id))
                    /\ workers'[w].res = ent_delete_result(ents, id)]_vars

\* A worker between the two statements of an ent_delete that removed an
\* assoc, the entity still in its table, while the other worker waits for the
\* mutex with an assoc_count.
C31_Witness ==
    \E w, u \in Workers :
        /\ MidDelete(w)
        /\ workers[w].before # assocs
        /\ EntsWithId(ents, workers[w].args.id) # {}
        /\ workers[u].pc = "lock"
        /\ workers[u].op = "assoc_count"

\* C32: once the mutex is poisoned it stays poisoned; from then on no step
\* changes the tables or the record of the last call of the connection, no
\* worker gets inside, and every call that ends returns
\* SharedResourcePoisoned, whichever method and clone it was made through,
\* the calls that were waiting for the mutex included.
C32_Poisoned ==
    [][mutex = Poisoned =>
          /\ mutex' = Poisoned
          /\ <<ents, assocs, last>> = <<ents', assocs', last'>>
          /\ \A w \in Workers :
                /\ workers'[w].pc \in {"idle", "lock", "returned"}
                /\ (workers[w].pc = "lock" /\ workers'[w].pc # "lock") =>
                      /\ workers'[w].pc = "returned"
                      /\ workers'[w].res = SharedResourcePoisoned
                      /\ workers'[w].op = workers[w].op]_vars

\* An ent_delete of one worker that returned SharedResourcePoisoned after the
\* other worker panicked between the two statements of its own ent_delete:
\* the entity and its assoc are still stored.
C32_Witness ==
    \E w, u \in Workers :
        /\ mutex = Poisoned
        /\ workers[w].pc = "returned"
        /\ workers[w].op = "ent_delete"
        /\ workers[w].res = SharedResourcePoisoned
        /\ workers[u].pc = "returned"
        /\ workers[u].op = "ent_delete"
        /\ workers[u].res = Unwound
        /\ EntsWithId(ents, 1) # {}
        /\ assocs # {}

\* The worker has entered a method of the wrapper and has not left it.
InCall(w) == workers[w].pc \in {"lock", "locked", "txn", "done"}

\* C33: under fair scheduling every call made through the wrapper ends: the
\* worker that entered a method leaves it, with the result of the connection,
\* with SharedResourcePoisoned when the mutex was poisoned before it took it,
\* or by its own panic.
C33_Returns ==
    \A w \in Workers : InCall(w) ~> workers[w].pc = "returned"

\* A worker that was waiting for the mutex with an ent_add and came back with
\* SharedResourcePoisoned after the other worker panicked in its assoc_add.
C33_Witness ==
    \E w, u \in Workers :
        /\ workers[w].pc = "returned"
        /\ workers[w].op = "ent_add"
        /\ workers[w].res = SharedResourcePoisoned
        /\ workers[u].pc = "returned"
        /\ workers[u].op = "assoc_add"
        /\ workers[u].res = Unwound
        /\ mutex = Poisoned

\* The configs of a list, as a set.
Listed(res) == {res.val[i] : i \in DOMAIN res.val}

\* C34: whatever init calls have been made, by whichever threads and however
\* often on one config, a walk of the registry ends, meets no config twice,
\* meets every config whose init is complete and none that no init has been
\* run on; and an init of a config whose init is complete leaves the list,
\* the links and every value as they are.
C34_Registry ==
    [][/\ Called("iter") =>
             /\ last'.res.kind = "Ok"
             /\ \A i, j \in DOMAIN last'.res.val : i # j => last'.res.val[i] # last'.res.val[j]
             /\ \A c \in Configs : statics[c].init = "done" => c \in Listed(last'.res)
             /\ \A c \in Listed(last'.res) : statics[c].init # "new"
       /\ \A c \in Configs :
             (statics[c].init = "done" /\ Called("init") /\ last'.args.config = c) =>
                UNCHANGED <<MAX_ASSOCS_PER_PAGE, DEFAULT_ASSOCS_PER_PAGE, REGISTRY, statics>>
       /\ \A c \in Configs : statics[c].init = "done" => statics'[c] = statics[c]]_vars

\* A walk that met both configs, both inits complete, the config registered
\* last at the head of the list and set to another value than its default.
C34_Witness ==
    /\ last.op = "iter"
    /\ last.res.kind = "Ok"
    /\ Len(last.res.val) = 2
    /\ MAX_ASSOCS_PER_PAGE = 12
    /\ REGISTRY = "MAX_ASSOCS_PER_PAGE"
    /\ \A c \in Configs : statics[c].init = "done"

\* C35: the first init of a config stores its default value and get returns
\* the value the config holds, so the default until a set; set(v) makes the
\* config hold v, and so does a set_from_ron of the text as_ron gives for v,
\* which returns Ok; as_ron returns the text of the value held; a
\* set_from_ron that fails, and every other step, leaves the value held as it
\* is; and a set or set_from_ron of one config leaves the other configs'
\* values as they are.
C35_GetSet ==
    [][\A c \in Configs :
          /\ (Called("get") /\ last'.args.config = c) => last'.res = ValueOf(c)
          /\ (Called("as_ron") /\ last'.args.config = c) =>
                /\ last'.res = to_string(ValueOf(c))
                /\ from_str(last'.res) = Ok(ValueOf(c))
          /\ (Called("set") /\ last'.args.config = c) => ValueOf(c)' = last'.args.value
          /\ (Called("set_from_ron") /\ last'.args.config = c) =>
                /\ \A v \in ConfigValues :
                      last'.args.ron = to_string(v) =>
                         last'.res.kind = "Ok" /\ ValueOf(c)' = v
                /\ last'.res.kind # "Ok" => ValueOf(c)' = ValueOf(c)
          /\ (ValueOf(c) = Null /\ ValueOf(c)' # Null) => ValueOf(c)' = DefaultOf(c)
          /\ (ValueOf(c) # Null /\ ValueOf(c)' # ValueOf(c)) =>
                /\ Called("set") \/ Called("set_from_ron")
                /\ last'.args.config = c]_vars

\* An as_ron that gave the two digits of a value set by set_from_ron, while
\* the other config holds its default.
C35_Witness ==
    /\ last.op = "as_ron"
    /\ last.args.config = "DEFAULT_ASSOCS_PER_PAGE"
    /\ last.res = <<"1", "2">>
    /\ MAX_ASSOCS_PER_PAGE = MAX_ASSOCS_PER_PAGE_default

\* C36: no call returns EntUpdateModifiedTooManyRows or
\* AssocUpdateModifiedTooManyRows, no two rows of ents have the same id, and
\* no two rows of assocs the same type, id1 and id2.
C36_AuditUnreachable ==
    /\ last.res.kind \notin {"EntUpdateModifiedTooManyRows",
                             "AssocUpdateModifiedTooManyRows"}
    /\ \A e, f \in ents : e.id = f.id => e = f
    /\ \A a, b \in assocs : SameKey(a, b) => a = b

\* An assoc_delete that found its one row, in a store with as many entities
\* as it takes, one of them updated.
C36_Witness ==
    /\ last.op = "assoc_delete"
    /\ last.res.kind = "Ok"
    /\ Cardinality(ents) = MaxId
    /\ \E id \in EntityId : written[id].live /\ written[id].updated

\* C37: when every assoc_add is made between two entities that exist, every
\* stored assoc has an id1 and an id2 that are ids of stored entities, after
\* any calls, ent_delete included.
C37_NoHanging ==
    \A a \in assocs : Exists(a.id1) /\ Exists(a.id2)

\* An ent_delete that removed one assoc of the entity and left another assoc,
\* between two other entities, in the table.
C37_Witness ==
    /\ last.op = "ent_delete"
    /\ last.res.kind = "Ok"
    /\ last.nr_assocs = 1
    /\ assocs # {}

C40_AtMostOnce ==
    [][Called("assoc_get") =>
          LET s == last'.args.id2_set
              v == last'.res.val
          IN  /\ last'.res.kind = "Ok"
              /\ \A i, j \in DOMAIN v : v[i].id2 = v[j].id2 => i = j
              /\ \A i \in DOMAIN v :
                    /\ \E n \in DOMAIN s : s[n] = v[i].id2
                    /\ \E a \in assocs : /\ a.type = last'.args.ty
                                         /\ a.id1 = last'.args.id1
                                         /\ a.id2 = v[i].id2
                                         /\ a.data = v[i].data
                                         /\ v[i].ty = a.type
                                         /\ v[i].id1 = a.id1
              /\ Len(v) <= Cardinality({s[n] : n \in DOMAIN s})]_vars

\* An assoc_get on a slice of three elements, two of them the same id, that
\* returned the two stored assocs of its two distinct ids.
C40_Witness ==
    /\ last.op = "assoc_get"
    /\ Len(last.args.id2_set) = 3
    /\ \E m, n \in DOMAIN last.args.id2_set :
          m # n /\ last.args.id2_set[m] = last.args.id2_set[n]
    /\ last.res.kind = "Ok"
    /\ Len(last.res.val) = 2

\* The worker is in a scan or at the end of one.
Scanning(w) == workers[w].pc \in {"paging", "exhausted"}

\* The id2 the scan of the worker received, in order, are strictly increasing.
Increasing(w) ==
    \A i, j \in DOMAIN workers[w].seen :
        i < j => workers[w].seen[i] < workers[w].seen[j]

\* Every id2 that had its assoc throughout the scan was received.
Complete(w) ==
    workers[w].stable \subseteq {workers[w].seen[i] : i \in DOMAIN workers[w].seen}

\* C39, as stated: the id2 a scan receives are strictly increasing across its
\* pages, none twice, whatever is added and deleted between the pages, and at
\* an empty page every assoc that was there throughout the scan was received,
\* for any limit of the pages.
C39_ScanAnyLimit ==
    \A w \in Workers :
        Scanning(w) =>
            /\ Increasing(w)
            /\ workers[w].pc = "exhausted" => Complete(w)

\* C39: the id2 a scan receives are strictly increasing across its pages, none
\* twice, whatever is added and deleted between the pages; when the limit of
\* the pages is at least one, at an empty page every assoc that was there
\* throughout the scan was received.
C39_Scan ==
    \A w \in Workers :
        Scanning(w) =>
            /\ Increasing(w)
            /\ (workers[w].pc = "exhausted" /\ PageSize(workers[w].args.limit) >= 1)
                  => Complete(w)

\* A scan at its empty page that received two ids in two pages, the assoc of
\* one id being there throughout and the assoc of another id, below the
\* cursor, added after the page it would have been in.
C39_Witness ==
    \E w \in Workers :
        /\ workers[w].pc = "exhausted"
        /\ Len(workers[w].seen) = 2
        /\ workers[w].args.limit = Limit(1)
        /\ workers[w].stable # {}
        /\ \E a \in assocs : /\ a.type = workers[w].args.ty
                             /\ a.id1 = workers[w].args.id1
                             /\ a.id2 < workers[w].seen[2]
                             /\ a.id2 # workers[w].seen[1]
====
